---- MODULE Spec2Model ----
(***************************************************************************)
(* reins: repository-maturity audit, doctor, evolve and init scaffolding,  *)
(* modelled over an explicit file tree.                                    *)
(*                                                                         *)
(* A path is the sequence of its components below the target directory     *)
(* (<<>> is the target itself).  A node is absent, a directory, or a file  *)
(* whose content is abstracted to: an identity tag (body), its line count, *)
(* its number of declared dependencies, and the set of content marks that  *)
(* the program's regular expressions and JSON probes test for.             *)
(***************************************************************************)
EXTENDS Integers, Sequences, FiniteSets, TLC

VARIABLES fs, out, probe, killedAt

vars == <<fs, out, probe, killedAt>>

(***************************************************************************)
(* Nodes                                                                   *)
(***************************************************************************)
Absent == [kind |-> "absent", body |-> "", lines |-> 0, deps |-> 0, marks |-> {}]

Dir == [kind |-> "dir", body |-> "", lines |-> 0, deps |-> 0, marks |-> {}]

File(body, lines, deps, marks) ==
    [kind |-> "file", body |-> body, lines |-> lines, deps |-> deps, marks |-> marks]

\* A symbolic link to the path `target` below the target directory.
Link(target) == [kind |-> "link", target |-> target]

\* A directory the process may not list (readdirSync: EACCES).
LockedDir == [kind |-> "dir", body |-> "", lines |-> 0, deps |-> 0, marks |-> {"EACCES"}]

(***************************************************************************)
(* The universe of paths the model keeps track of.                         *)
(***************************************************************************)
Root == << >>

Paths ==
    {Root}
    \cup { <<"AGENTS.md">>, <<"ARCHITECTURE.md">>, <<"risk-policy.json">>,
          <<"package.json">>, <<"README.md">>, <<"biome.json">>, <<"CLAUDE.md">>,
          <<"vercel.json">>, <<"go.mod">>, <<"Jenkinsfile">> }
    \cup { <<"docs">>,
          <<"docs", "golden-principles.md">>,
          <<"docs", "design-docs">>,
          <<"docs", "design-docs", "index.md">>,
          <<"docs", "design-docs", "core-beliefs.md">>,
          <<"docs", "product-specs">>,
          <<"docs", "product-specs", "index.md">>,
          <<"docs", "exec-plans">>,
          <<"docs", "exec-plans", "active">>,
          <<"docs", "exec-plans", "completed">>,
          <<"docs", "exec-plans", "tech-debt-tracker.md">>,
          <<"docs", "generated">>,
          <<"docs", "references">> }
    \cup { <<"scripts">>,
          <<"scripts", "lint-structure.mjs">>,
          <<"scripts", "doc-gardener.mjs">>,
          <<"scripts", "check-changed-doc-freshness.mjs">>,
          <<"scripts", "pr-review.mjs">>,
          <<"scripts", "docs-drift.mjs">> }
    \cup { <<".github">>,
          <<".github", "pull_request_template.md">>,
          <<".github", "workflows">>,
          <<".github", "workflows", "risk-policy-gate.yml">>,
          <<".github", "workflows", "pr-review-bot.yml">>,
          <<".github", "workflows", "structural-lint.yml">>,
          <<".github", "workflows", "ci.yml">> }
    \cup { <<"src">>, <<"src", "index.ts">>, <<"src", "cli.test.ts">>,
          <<"packages">>, <<"packages", "app">>,
          <<"packages", "app", "package.json">>,
          <<"packages", "app", "AGENTS.md">>,
          <<"lib">>, <<"lib", "a">>, <<"lib", "a", "b">>,
          <<"lib", "a", "b", "deep.ts">>,
          <<"lib", "index.ts">>, <<"lib", "a", "up">>,
          <<"lib", "node_modules">>, <<"lib", "node_modules", "index.ts">> }

Parent(p) == SubSeq(p, 1, Len(p) - 1)

Base(p) == p[Len(p)]

IsPrefix(d, p) == Len(d) <= Len(p) /\ SubSeq(p, 1, Len(d)) = d

\* join(a, b) of node:path on component sequences
join(a, b) == a \o b

ChildrenOf == [d \in Paths |-> {p \in Paths : Len(p) = Len(d) + 1 /\ Parent(p) = d}]

(***************************************************************************)
(* node:fs primitives                                                      *)
(***************************************************************************)
Node(tree, p) == IF p \in DOMAIN tree THEN tree[p] ELSE Absent

existsSync(tree, p) == Node(tree, p).kind # "absent"

IsFile(tree, p) == Node(tree, p).kind = "file"

IsDir(tree, p) == Node(tree, p).kind = "dir"

\* readFileSync(p, "utf-8") returns the content of a regular file and throws
\* (ENOENT, EISDIR) on anything else.
readThrows(tree, p) == ~IsFile(tree, p)

HasMark(tree, p, m) == IsFile(tree, p) /\ m \in tree[p].marks

\* readdirSync(dir): the entry names of a directory; throws on anything else.
readdirThrows(tree, d) == ~IsDir(tree, d)

Entries(tree, d) ==
    IF d \in Paths THEN {p \in ChildrenOf[d] : tree[p].kind # "absent"} ELSE {}

\* mkdirSync(p, {recursive: true}) creates p and every missing ancestor;
\* it throws when p or an ancestor is a regular file.
mkdirThrows(tree, p) == \E i \in 0..Len(p) : IsFile(tree, SubSeq(p, 1, i))

mkdirSync(tree, p) ==
    [q \in DOMAIN tree |->
        IF IsPrefix(q, p) /\ tree[q].kind = "absent" THEN Dir ELSE tree[q]]

\* writeFileSync(p, content) creates or replaces a regular file; it throws
\* when p is a directory or the parent of p is not a directory.
writeThrows(tree, p) == IsDir(tree, p) \/ ~IsDir(tree, Parent(p))

writeFileSync(tree, p, content) == [tree EXCEPT ![p] = content]

\* The tree is well formed: whatever exists lies in a directory.
WellFormed(tree) ==
    \A p \in DOMAIN tree :
        (p # Root /\ tree[p].kind # "absent") => tree[Parent(p)].kind = "dir"

(***************************************************************************)
(* Filesystem scanner                                                      *)
(***************************************************************************)
IGNORED_DIRS == {"node_modules", ".git", "dist", "build", ".next", ".expo"}

\* Symbolic links one path resolution follows before it fails (ELOOP).
MaxLinkHops == 8

RECURSIVE realpathFrom(_, _, _, _)
\* Path resolution as statSync and readdirSync do it: component by component
\* from the resolved directory `cur`, following every symbolic link.  The
\* result is {the resolved path}, or {} when resolution fails (ENOENT,
\* ENOTDIR, ELOOP).
realpathFrom(tree, cur, rest, hops) ==
    IF rest = << >> THEN {cur}
    ELSE IF tree[cur].kind # "dir" THEN {}
    ELSE LET nxt == Append(cur, Head(rest)) IN
         IF nxt \notin DOMAIN tree THEN {}
         ELSE IF tree[nxt].kind = "absent" THEN {}
         ELSE IF tree[nxt].kind # "link" THEN realpathFrom(tree, nxt, Tail(rest), hops)
         ELSE IF hops = 0 THEN {}
         ELSE realpathFrom(tree, Root, tree[nxt].target \o Tail(rest), hops - 1)

realpath(tree, p) == realpathFrom(tree, Root, p, MaxLinkHops)

\* Variant: a directory that may not be listed is listed all the same.
safeReadDir_listsLocked(tree, d) ==
    IF realpath(tree, d) = {} THEN {}
    ELSE {join(d, <<Base(c)>>) :
             c \in {c \in ChildrenOf[CHOOSE r \in realpath(tree, d) : TRUE] :
                        tree[c].kind # "absent"}}

\* readdirSync(dir) inside try: the entries of the directory `dir` resolves
\* to, each as join(dir, entry); [] when the directory cannot be listed.
safeReadDir(tree, d) ==
    LET resolved == realpath(tree, d) IN
    IF resolved = {} THEN {}
    ELSE LET q == CHOOSE r \in resolved : TRUE IN
         IF tree[q].kind # "dir" \/ "EACCES" \in tree[q].marks THEN {}
         ELSE {join(d, <<Base(c)>>) : c \in {c \in ChildrenOf[q] : tree[c].kind # "absent"}}

\* safeStat: statSync(path) inside try: the node the path resolves to, or
\* "null" when the entry cannot be stat'ed.
safeStat(tree, p) ==
    LET resolved == realpath(tree, p) IN
    IF resolved = {} THEN Absent ELSE tree[CHOOSE r \in resolved : TRUE]

RECURSIVE walk(_, _, _, _, _)
RECURSIVE collectFileMatch(_, _, _, _, _)

\* A pattern is the set of entry names (of the universe) the RegExp accepts.
collectFileMatch(tree, fullPath, depth, maxDepth, pattern) ==
    IF Base(fullPath) \in IGNORED_DIRS THEN {}
    ELSE LET stat == safeStat(tree, fullPath) IN
         IF stat.kind = "absent" THEN {}
         ELSE IF stat.kind = "dir" THEN walk(tree, fullPath, depth + 1, maxDepth, pattern)
         ELSE IF depth <= maxDepth /\ Base(fullPath) \in pattern
         THEN {[kind |-> "match", path |-> fullPath]}
         ELSE {}

\* Variant: the walk stops one level later.
walk_oneLevelLate(tree, current, depth, maxDepth, pattern) ==
    IF depth > maxDepth + 1 THEN {}
    ELSE {[kind |-> "read", path |-> current]}
         \cup UNION {collectFileMatch(tree, entry, depth, maxDepth, pattern) :
                         entry \in safeReadDir(tree, current)}

\* What one walk does: the directories it lists (read) and the files it
\* pushes to results (match).
walk(tree, current, depth, maxDepth, pattern) ==
    IF depth > maxDepth THEN {}
    ELSE {[kind |-> "read", path |-> current]}
         \cup UNION {collectFileMatch(tree, entry, depth, maxDepth, pattern) :
                         entry \in safeReadDir(tree, current)}

\* The directories findFiles lists with readdirSync
walkedDirs(tree, dir, pattern, maxDepth) ==
    {step.path : step \in {x \in walk(tree, dir, 0, maxDepth, pattern) : x.kind = "read"}}

findFiles(tree, dir, pattern, maxDepth) ==
    {step.path : step \in {x \in walk(tree, dir, 0, maxDepth, pattern) : x.kind = "match"}}

DefaultMaxDepth == 3

\* /^package\.json$/ over the entry names of the universe
PatPackageJson == {"package.json"}

(***************************************************************************)
(* Signal detectors                                                        *)
(***************************************************************************)
Gates == {"lint", "test", "typecheck", "build", "audit", "prettier", "format"}

GateMark(g) == "gate:" \o g

\* keywordPatterns over the lower-cased content of one workflow file
FileGates(tree, p) == {g \in Gates : GateMark(g) \in tree[p].marks}

\* readdirSync order of the workflow directory
WorkflowOrder == <<"ci.yml", "pr-review-bot.yml", "risk-policy-gate.yml", "structural-lint.yml">>

\* Workflow files in directory order, cut at the first one that cannot be read
\* (the read throws inside the try block and ends the loop).
ReadableWorkflowPrefix(tree, workflowDir) ==
    LET present == SelectSeq(WorkflowOrder,
                       LAMBDA n : existsSync(tree, join(workflowDir, <<n>>)))
        bad == {i \in 1..Len(present) : readThrows(tree, join(workflowDir, <<present[i]>>))}
        upto == IF bad = {} THEN Len(present)
                ELSE (CHOOSE i \in bad : \A j \in bad : i <= j) - 1
    IN [files |-> {join(workflowDir, <<present[i]>>) : i \in 1..upto},
        threw |-> bad # {}]

scanWorkflowsForEnforcement(tree, workflowDir) ==
    IF readdirThrows(tree, workflowDir) THEN {}
    ELSE UNION {FileGates(tree, f) : f \in ReadableWorkflowPrefix(tree, workflowDir).files}

\* JSON.parse(readFileSync(p)) succeeds
ParsesJson(tree, p) == HasMark(tree, p, "json")

JsonHas(tree, p, m) == ParsesJson(tree, p) /\ HasMark(tree, p, m)

\* pkg.workspaces?.packages || pkg.workspaces, as workspace globs
detectMonorepoWorkspaces(tree, pkgJsonPath) ==
    IF JsonHas(tree, pkgJsonPath, "workspaces") THEN {"packages/*"} ELSE {}

\* workspace.replace(/\*/g, "") joined to the target directory
isCliPackage(tree, p) == JsonHas(tree, p, "cli")

detectCliProject(tree, rootPkgJsonPath) ==
    \/ existsSync(tree, rootPkgJsonPath) /\ isCliPackage(tree, rootPkgJsonPath)
    \/ \E f \in findFiles(tree, Root, PatPackageJson, 4) :
           /\ f # rootPkgJsonPath
           /\ "node_modules" \notin {f[i] : i \in 1..Len(f)}
           /\ isCliPackage(tree, f)

detectReadmeSignals(tree) ==
    IF existsSync(tree, <<"README.md">>) /\ HasMark(tree, <<"README.md">>, "doctor-word")
    THEN {"doctor docs"} ELSE {}

detectWorkflowSignals(tree) ==
    LET workflowDir == <<".github", "workflows">> IN
    IF ~existsSync(tree, workflowDir) \/ readdirThrows(tree, workflowDir) THEN {}
    ELSE IF \E f \in ReadableWorkflowPrefix(tree, workflowDir).files :
                HasMark(tree, f, GateMark("audit")) \/ HasMark(tree, f, "doctor-word")
         THEN {"ci diagnostic checks"} ELSE {}

detectSourceSignals(tree) ==
    IF \E f \in findFiles(tree, Root, {"index.ts"}, 5) :
           "node_modules" \notin {f[i] : i \in 1..Len(f)} /\ HasMark(tree, f, "help-surface")
    THEN {"cli diagnostic command surface"} ELSE {}

detectTestSignals(tree) ==
    IF \E f \in findFiles(tree, Root, {"cli.test.ts"}, 5) :
           "node_modules" \notin {f[i] : i \in 1..Len(f)} /\ HasMark(tree, f, "help-test")
    THEN {"cli diagnostic tests"} ELSE {}

detectCliDiagnosabilitySignals(tree) ==
    detectReadmeSignals(tree) \cup detectWorkflowSignals(tree)
        \cup detectSourceSignals(tree) \cup detectTestSignals(tree)

(***************************************************************************)
(* Audit: runtime context                                                  *)
(***************************************************************************)
B2N(b) == IF b THEN 1 ELSE 0

PkgJsonPath == <<"package.json">>

AgentsMdPath == <<"AGENTS.md">>

ArchMdPath == <<"ARCHITECTURE.md">>

RiskPolicyPath == <<"risk-policy.json">>

DocsDir == <<"docs">>

DesignDocsDir == <<"docs", "design-docs">>

DesignDocsIndex == <<"docs", "design-docs", "index.md">>

ExecPlansDir == <<"docs", "exec-plans">>

GoldenPath == <<"docs", "golden-principles.md">>

WorkflowDir == <<".github", "workflows">>

ScriptsDir == <<"scripts">>

readVerifiedDocs(tree) ==
    \* /\.(md|markdown)$/ over the entry names of the universe
    {f \in findFiles(tree, Root,
                     {"AGENTS.md", "ARCHITECTURE.md", "README.md", "CLAUDE.md",
                      "golden-principles.md", "index.md", "core-beliefs.md",
                      "tech-debt-tracker.md", "pull_request_template.md"},
                     DefaultMaxDepth) :
        HasMark(tree, f, "verified-hdr")}

buildAuditRuntimeContext(tree) ==
    LET monorepoWorkspaces ==
            IF existsSync(tree, PkgJsonPath) THEN detectMonorepoWorkspaces(tree, PkgJsonPath) ELSE {}
    IN
    [ hasRiskPolicy |-> existsSync(tree, RiskPolicyPath),
      hasEslint |-> \/ existsSync(tree, <<".eslintrc.json">>)
                    \/ existsSync(tree, <<".eslintrc.js">>)
                    \/ existsSync(tree, <<"eslint.config.js">>)
                    \/ existsSync(tree, <<"eslint.config.mjs">>),
      hasBiome |-> existsSync(tree, <<"biome.json">>),
      hasStructuralLintScript |->
            /\ existsSync(tree, ScriptsDir)
            /\ findFiles(tree, ScriptsDir, {"lint-structure.mjs", "structural-lint.yml"}, 1) # {},
      ciEnforcementSteps |->
            IF existsSync(tree, WorkflowDir) THEN scanWorkflowsForEnforcement(tree, WorkflowDir) ELSE {},
      monorepoWorkspaces |-> monorepoWorkspaces,
      isMonorepo |-> monorepoWorkspaces # {},
      isCliRepo |-> detectCliProject(tree, PkgJsonPath),
      verifiedDocs |-> readVerifiedDocs(tree),
      hasCleanupDocs |-> existsSync(tree, <<"docs", "exec-plans", "tech-debt-tracker.md">>) ]

(***************************************************************************)
(* Audit: the six dimension scorers.  Each scorer has the score it adds    *)
(* and the condition under which one of its unguarded reads throws.        *)
(***************************************************************************)
AgentsMaxLines == 150

LeanDepsLimit == 20

LeanWorkspaceAvgLimit == 30

scoreRepositoryAgents(tree, ctx) ==
    B2N(existsSync(tree, AgentsMdPath) /\ Node(tree, AgentsMdPath).lines <= AgentsMaxLines)

scoreRepositoryAgentsThrows(tree) ==
    existsSync(tree, AgentsMdPath) /\ readThrows(tree, AgentsMdPath)

scoreRepositoryDocs(tree, ctx) ==
    B2N(/\ existsSync(tree, DocsDir)
        /\ existsSync(tree, DesignDocsDir)
        /\ existsSync(tree, DesignDocsIndex))

scoreRepositoryDocsThrows(tree) ==
    /\ existsSync(tree, DocsDir)
    /\ existsSync(tree, DesignDocsDir)
    /\ existsSync(tree, DesignDocsIndex)
    /\ readThrows(tree, DesignDocsIndex)

scoreRepositoryExecutionPlans(tree, ctx) ==
    B2N(/\ existsSync(tree, ExecPlansDir)
        /\ existsSync(tree, join(ExecPlansDir, <<"active">>))
        /\ existsSync(tree, join(ExecPlansDir, <<"completed">>)))

scoreRepositoryKnowledge(tree, ctx) ==
    scoreRepositoryAgents(tree, ctx) + scoreRepositoryDocs(tree, ctx)
        + scoreRepositoryExecutionPlans(tree, ctx)

enforcementSignals(tree, ctx) ==
    LET ciRefsEnforcement ==
            ctx.ciEnforcementSteps \cap {"lint", "test", "typecheck", "type-check"} # {}
        goldenEnforcementRatio ==
            /\ existsSync(tree, GoldenPath)
            /\ HasMark(tree, GoldenPath, "enforce-word")
            /\ (ctx.hasEslint \/ ctx.hasBiome)
    IN B2N(ctx.hasRiskPolicy) + B2N(ciRefsEnforcement)
         + B2N(ctx.hasStructuralLintScript) + B2N(goldenEnforcementRatio)

\* Variant: a single enforcement signal earns the evidence point.
scoreArchitectureEnforcement_oneSignal(tree, ctx) ==
    B2N(existsSync(tree, ArchMdPath) /\ HasMark(tree, ArchMdPath, "dep-rules"))
      + B2N(ctx.hasEslint \/ ctx.hasBiome)
      + B2N(enforcementSignals(tree, ctx) >= 1)

\* The finding the enforcement-evidence branch pushes, if any.
enforcementEvidenceFindings(tree, ctx) ==
    IF enforcementSignals(tree, ctx) >= 2 THEN {"Enforcement evidence detected"}
    ELSE IF enforcementSignals(tree, ctx) = 1
    THEN {"Partial enforcement evidence (need 2+ signals)"}
    ELSE {}

scoreArchitectureEnforcement(tree, ctx) ==
    B2N(existsSync(tree, ArchMdPath) /\ HasMark(tree, ArchMdPath, "dep-rules"))
      + B2N(ctx.hasEslint \/ ctx.hasBiome)
      + B2N(enforcementSignals(tree, ctx) >= 2)

scoreArchitectureEnforcementThrows(tree) ==
    \/ existsSync(tree, ArchMdPath) /\ readThrows(tree, ArchMdPath)
    \/ existsSync(tree, GoldenPath) /\ readThrows(tree, GoldenPath)

hasBootableWorkspace(tree, ctx) ==
    \E workspace \in ctx.monorepoWorkspaces :
        LET workspaceDir == IF workspace = "packages/*" THEN <<"packages">> ELSE Root IN
        /\ existsSync(tree, workspaceDir)
        /\ \E entry \in safeReadDir(tree, workspaceDir) :
              LET workspacePkgPath == join(entry, <<"package.json">>) IN
              /\ existsSync(tree, workspacePkgPath)
              /\ JsonHas(tree, workspacePkgPath, "script-dev")

hasObservability(tree, ctx) ==
    LET obsFiles == {"docker-compose.yml", "docker-compose.yaml", "grafana", "prometheus.yml"}
        hasTraditionalObs ==
            \E file \in obsFiles :
                existsSync(tree, <<file>>) \/ existsSync(tree, <<"infra", file>>)
        hasModernObs ==
            \/ findFiles(tree, Root, {}, 1) # {}
            \/ existsSync(tree, <<"vercel.json">>)
            \/ existsSync(tree, <<"netlify.toml">>)
            \/ existsSync(tree, PkgJsonPath) /\ HasMark(tree, PkgJsonPath, "obs-dep")
            \/ findFiles(tree, Root, {}, 1) # {}
    IN hasTraditionalObs \/ hasModernObs

scoreObservability(tree, ctx) ==
    IF hasObservability(tree, ctx) THEN 1
    ELSE IF ~ctx.isCliRepo THEN 0
    ELSE B2N(Cardinality(detectCliDiagnosabilitySignals(tree)) >= 2)

RECURSIVE SumDeps(_, _)
SumDeps(tree, files) ==
    IF files = {} THEN 0
    ELSE LET f == CHOOSE x \in files : TRUE
         IN tree[f].deps + SumDeps(tree, files \ {f})

\* Math.round(a / b) for a >= 0, b > 0
scoreMonorepoDependencyFootprint(tree, ctx) ==
    LET workspacePkgFiles ==
            {f \in findFiles(tree, Root, PatPackageJson, 3) :
                f # PkgJsonPath /\ "node_modules" \notin {f[i] : i \in 1..Len(f)}}
        readable == {f \in workspacePkgFiles : ParsesJson(tree, f)}
        counted == Cardinality(readable)
    IN IF workspacePkgFiles = {} THEN 0
       ELSE IF counted = 0 THEN 0
       ELSE B2N((2 * SumDeps(tree, readable) + counted) \div (2 * counted) < LeanWorkspaceAvgLimit)

scoreSinglePackageDependencyFootprint(tree, ctx) ==
    B2N(Node(tree, PkgJsonPath).deps < LeanDepsLimit)

\* Variant: a tree without a manifest counts as lean.
scoreDependencyFootprint_leanWithoutManifest(tree, ctx) ==
    IF ~existsSync(tree, PkgJsonPath) THEN 1
    ELSE IF ctx.isMonorepo THEN scoreMonorepoDependencyFootprint(tree, ctx)
    ELSE IF ~ParsesJson(tree, PkgJsonPath) THEN 0
    ELSE scoreSinglePackageDependencyFootprint(tree, ctx)

scoreDependencyFootprint(tree, ctx) ==
    IF ~existsSync(tree, PkgJsonPath) THEN 0
    ELSE IF ctx.isMonorepo THEN scoreMonorepoDependencyFootprint(tree, ctx)
    ELSE IF ~ParsesJson(tree, PkgJsonPath) THEN 0
    ELSE scoreSinglePackageDependencyFootprint(tree, ctx)

scoreAgentLegibility(tree, ctx) ==
    B2N(/\ existsSync(tree, PkgJsonPath)
        /\ ParsesJson(tree, PkgJsonPath)
        /\ \/ HasMark(tree, PkgJsonPath, "script-dev")
           \/ ctx.isMonorepo /\ hasBootableWorkspace(tree, ctx))
      + scoreObservability(tree, ctx)
      + scoreDependencyFootprint(tree, ctx)

\* Variant: the tech-debt tracker does not count towards golden principles.
scoreGoldenPrinciples_withoutDebtTracker(tree, ctx) ==
    LET ciPaths == {<<".github", "workflows">>, <<".gitlab-ci.yml">>, <<"Jenkinsfile">>, <<".circleci">>}
        hasCI == \E path \in ciPaths : existsSync(tree, path)
    IN B2N(existsSync(tree, GoldenPath)) + B2N(hasCI)

scoreGoldenPrinciples(tree, ctx) ==
    LET ciPaths == {<<".github", "workflows">>, <<".gitlab-ci.yml">>, <<"Jenkinsfile">>, <<".circleci">>}
        hasCI == \E path \in ciPaths : existsSync(tree, path)
    IN B2N(existsSync(tree, GoldenPath)) + B2N(hasCI) + B2N(ctx.hasCleanupDocs)

scoreGoldenPrinciplesThrows(tree) ==
    existsSync(tree, GoldenPath) /\ readThrows(tree, GoldenPath)

scoreAgentWorkflowConfig(tree, ctx) ==
    LET agentConfigs == {"CLAUDE.md", ".claude", "CODEX.md", ".cursor", "conductor.json"}
    IN B2N(\E file \in agentConfigs : existsSync(tree, <<file>>))

scoreAgentWorkflowGovernance(tree, ctx) ==
    LET hasPRTemplate ==
            \/ existsSync(tree, <<".github", "pull_request_template.md">>)
            \/ existsSync(tree, <<".github", "PULL_REQUEST_TEMPLATE.md">>)
        hasIssueTemplates == existsSync(tree, <<".github", "ISSUE_TEMPLATE">>)
        hasConductor == existsSync(tree, <<"conductor.json">>)
    IN B2N(hasPRTemplate \/ ctx.hasRiskPolicy \/ hasIssueTemplates \/ hasConductor)

\* Variant: every recognised gate counts towards the CI point.
scoreAgentWorkflowCi_anyGate(tree, ctx) ==
    B2N(existsSync(tree, WorkflowDir) /\ Cardinality(ctx.ciEnforcementSteps) >= 2)

scoreAgentWorkflowCi(tree, ctx) ==
    LET workflowEnforcement ==
            ctx.ciEnforcementSteps \cap {"lint", "test", "build", "typecheck", "type-check"}
    IN B2N(existsSync(tree, WorkflowDir) /\ Cardinality(workflowEnforcement) >= 2)

scoreAgentWorkflow(tree, ctx) ==
    scoreAgentWorkflowConfig(tree, ctx) + scoreAgentWorkflowGovernance(tree, ctx)
        + scoreAgentWorkflowCi(tree, ctx)

hasActiveDocGardening(tree, ctx) ==
    \/ existsSync(tree, DesignDocsIndex) /\ HasMark(tree, DesignDocsIndex, "verif-word")
    \* /doc-gardener|freshness/i
    \/ /\ existsSync(tree, ScriptsDir)
       /\ findFiles(tree, ScriptsDir,
                    {"doc-gardener.mjs", "check-changed-doc-freshness.mjs"}, 1) # {}
    \/ Cardinality(ctx.verifiedDocs) >= 3

hasActiveDocGardeningThrows(tree) ==
    existsSync(tree, DesignDocsIndex) /\ readThrows(tree, DesignDocsIndex)

hasQualityGrades(tree, ctx) ==
    existsSync(tree, ArchMdPath) /\ HasMark(tree, ArchMdPath, "grade")

hasQualityGradesThrows(tree) ==
    existsSync(tree, ArchMdPath) /\ readThrows(tree, ArchMdPath)

hasDriftEnforcement(tree, ctx) ==
    \/ ctx.hasRiskPolicy /\ HasMark(tree, RiskPolicyPath, "drift-rules")
    \/ existsSync(tree, ScriptsDir) /\ findFiles(tree, ScriptsDir, {"docs-drift.mjs"}, 1) # {}

\* Variant: quality grades and drift enforcement earn a point each.
scoreGarbageCollection_fourPoints(tree, ctx) ==
    B2N(ctx.hasCleanupDocs)
      + B2N(hasActiveDocGardening(tree, ctx))
      + B2N(hasQualityGrades(tree, ctx)) + B2N(hasDriftEnforcement(tree, ctx))

scoreGarbageCollection(tree, ctx) ==
    B2N(ctx.hasCleanupDocs)
      + B2N(hasActiveDocGardening(tree, ctx))
      + B2N(hasQualityGrades(tree, ctx) \/ hasDriftEnforcement(tree, ctx))

Dimensions ==
    <<"repository_knowledge", "architecture_enforcement", "agent_legibility",
      "golden_principles", "agent_workflow", "garbage_collection">>

DimensionMax == 3

MaxScore == 18

\* createAuditResult followed by the six scorers, in declaration order
applyAuditScoring(tree, ctx) ==
    [ repository_knowledge |-> [score |-> scoreRepositoryKnowledge(tree, ctx), max |-> DimensionMax],
      architecture_enforcement |-> [score |-> scoreArchitectureEnforcement(tree, ctx), max |-> DimensionMax,
                                    evidence |-> enforcementEvidenceFindings(tree, ctx)],
      agent_legibility |-> [score |-> scoreAgentLegibility(tree, ctx), max |-> DimensionMax],
      golden_principles |-> [score |-> scoreGoldenPrinciples(tree, ctx), max |-> DimensionMax],
      agent_workflow |-> [score |-> scoreAgentWorkflow(tree, ctx), max |-> DimensionMax],
      garbage_collection |-> [score |-> scoreGarbageCollection(tree, ctx), max |-> DimensionMax] ]

applyAuditScoringThrows(tree) ==
    \/ scoreRepositoryAgentsThrows(tree)
    \/ scoreRepositoryDocsThrows(tree)
    \/ scoreArchitectureEnforcementThrows(tree)
    \/ scoreGoldenPrinciplesThrows(tree)
    \/ hasActiveDocGardeningThrows(tree)
    \/ hasQualityGradesThrows(tree)

\* Variant: the L2 band ends one point early.
resolveMaturityLevel_shortL2(totalScore) ==
    IF totalScore <= 4 THEN "L0: Manual"
    ELSE IF totalScore <= 8 THEN "L1: Assisted"
    ELSE IF totalScore <= 12 THEN "L2: Steered"
    ELSE IF totalScore <= 16 THEN "L3: Autonomous"
    ELSE "L4: Self-Correcting"

resolveMaturityLevel(totalScore) ==
    IF totalScore <= 4 THEN "L0: Manual"
    ELSE IF totalScore <= 8 THEN "L1: Assisted"
    ELSE IF totalScore <= 13 THEN "L2: Steered"
    ELSE IF totalScore <= 16 THEN "L3: Autonomous"
    ELSE "L4: Self-Correcting"

RECURSIVE SumScores(_, _)
\* Object.values(result.scores).reduce((sum, score) => sum + score.score, 0)
SumScores(scores, i) ==
    IF i > Len(Dimensions) THEN 0
    ELSE scores[Dimensions[i]].score + SumScores(scores, i + 1)

\* Variant: the total leaves out the first dimension.
sumAuditResult_dropsDimension(scores) ==
    [status |-> "ok",
     scores |-> scores,
     total_score |-> SumScores(scores, 2),
     max_score |-> MaxScore,
     maturity_level |-> resolveMaturityLevel(SumScores(scores, 2))]

\* result.total_score = ...reduce(...); result.maturity_level = resolveMaturityLevel(total)
sumAuditResult(scores) ==
    [status |-> "ok",
     scores |-> scores,
     total_score |-> SumScores(scores, 1),
     max_score |-> MaxScore,
     maturity_level |-> resolveMaturityLevel(SumScores(scores, 1))]

\* runAudit: a complete AuditResult, or the error it throws
runAudit(tree) ==
    IF ~existsSync(tree, Root)
    THEN [status |-> "error", error |-> "Directory does not exist"]
    ELSE IF applyAuditScoringThrows(tree)
    THEN [status |-> "error", error |-> "read failed"]
    ELSE sumAuditResult(applyAuditScoring(tree, buildAuditRuntimeContext(tree)))

(***************************************************************************)
(* Templates: the content init and the automation pack write.              *)
(***************************************************************************)
agentsMdTemplate == File("agentsMdTemplate", 49, 0, {})

architectureMdTemplate == File("architectureMdTemplate", 66, 0, {"dep-rules", "grade"})

riskPolicyTemplate(pack) ==
    IF pack = "agent-factory"
    THEN File("riskPolicyTemplate(agent-factory)", 31, 0, {"json", "drift-rules"})
    ELSE File("riskPolicyTemplate(none)", 16, 0, {"json", "drift-rules"})

goldenPrinciplesTemplate == File("goldenPrinciplesTemplate", 55, 0, {"enforce-word"})

designDocsIndexTemplate == File("designDocsIndexTemplate", 23, 0, {"verif-word"})

coreBeliefsTemplate == File("coreBeliefsTemplate", 33, 0, {})

productSpecsIndexTemplate == File("productSpecsIndexTemplate", 16, 0, {})

techDebtTrackerTemplate == File("techDebtTrackerTemplate", 23, 0, {})

getAgentFactoryPackFiles ==
    << [path |-> <<"scripts", "lint-structure.mjs">>,
        content |-> File("agentFactoryLintStructureScriptTemplate", 107, 0, {})],
       [path |-> <<"scripts", "doc-gardener.mjs">>,
        content |-> File("agentFactoryDocGardenerScriptTemplate", 79, 0, {})],
       [path |-> <<"scripts", "check-changed-doc-freshness.mjs">>,
        content |-> File("agentFactoryChangedDocFreshnessScriptTemplate", 68, 0, {})],
       [path |-> <<"scripts", "pr-review.mjs">>,
        content |-> File("agentFactoryPrReviewScriptTemplate", 77, 0, {})],
       [path |-> <<".github", "workflows", "risk-policy-gate.yml">>,
        content |-> File("agentFactoryRiskPolicyWorkflowTemplate", 103, 0, {})],
       [path |-> <<".github", "workflows", "pr-review-bot.yml">>,
        content |-> File("agentFactoryPrReviewWorkflowTemplate", 75, 0, {})],
       [path |-> <<".github", "workflows", "structural-lint.yml">>,
        content |-> File("agentFactoryStructuralLintWorkflowTemplate", 17, 0, {"gate:lint"})] >>

(***************************************************************************)
(* Automation pack                                                         *)
(***************************************************************************)
hasAgentFactoryPack(tree) ==
    LET requiredPaths ==
            { <<"scripts", "lint-structure.mjs">>,
              <<"scripts", "doc-gardener.mjs">>,
              <<"scripts", "check-changed-doc-freshness.mjs">>,
              <<"scripts", "pr-review.mjs">>,
              <<".github", "workflows", "risk-policy-gate.yml">>,
              <<".github", "workflows", "pr-review-bot.yml">>,
              <<".github", "workflows", "structural-lint.yml">> }
    IN \A path \in requiredPaths : existsSync(tree, path)

\* Variant: JS/TS sources alone select the pack.
recommendAutomationPack_sourcesSuffice(tree) ==
    IF existsSync(tree, PkgJsonPath)
          \/ findFiles(tree, Root,
                       {"index.ts", "cli.test.ts", "deep.ts", "lint-structure.mjs",
                        "doc-gardener.mjs", "check-changed-doc-freshness.mjs",
                        "pr-review.mjs", "docs-drift.mjs"}, 2) # {}
    THEN [requested |-> "auto", selected |-> "agent-factory", reason |-> "Detected package.json"]
    ELSE [requested |-> "auto", selected |-> "none", reason |-> "Insufficient stack signals"]

recommendAutomationPack(tree) ==
    LET hasPackageJson == existsSync(tree, PkgJsonPath)
        \* /\.(ts|tsx|js|jsx|mjs|cjs)$/ over the entry names of the universe
        hasJsTsSources ==
            findFiles(tree, Root,
                      {"index.ts", "cli.test.ts", "deep.ts", "lint-structure.mjs",
                       "doc-gardener.mjs", "check-changed-doc-freshness.mjs",
                       "pr-review.mjs", "docs-drift.mjs"}, 2) # {}
        hasGithubConfig == existsSync(tree, <<".github">>) \/ existsSync(tree, WorkflowDir)
        nonNodeSignals ==
            {"go.mod", "Cargo.toml", "pyproject.toml", "requirements.txt", "pom.xml",
             "build.gradle", "Gemfile"}
        hasNonNodeOnlySignals == \E file \in nonNodeSignals : existsSync(tree, <<file>>)
    IN IF hasPackageJson
       THEN [requested |-> "auto", selected |-> "agent-factory", reason |-> "Detected package.json"]
       ELSE IF hasJsTsSources /\ hasGithubConfig
       THEN [requested |-> "auto", selected |-> "agent-factory",
             reason |-> "Detected JS/TS sources with GitHub workflow usage"]
       ELSE IF hasNonNodeOnlySignals /\ ~hasJsTsSources /\ ~hasPackageJson
       THEN [requested |-> "auto", selected |-> "none", reason |-> "Detected non-JS stack signals"]
       ELSE [requested |-> "auto", selected |-> "none", reason |-> "Insufficient stack signals"]

resolveAutomationPack(tree, requested) ==
    IF requested = "auto" THEN recommendAutomationPack(tree)
    ELSE IF requested = "agent-factory"
    THEN [requested |-> requested, selected |-> "agent-factory",
          reason |-> "Explicitly requested agent-factory automation pack"]
    ELSE [requested |-> requested, selected |-> "none",
          reason |-> "No optional automation pack selected"]

(***************************************************************************)
(* Scaffolding writes.  A run is a record: the tree so far, the created    *)
(* list, how many more write steps the process lives for (left), and       *)
(* whether a write threw.  A step that finds left = 0 does nothing: the    *)
(* process was interrupted before it.                                      *)
(***************************************************************************)

StartRun(tree, left) == [fs |-> tree, created |-> << >>, left |-> left, status |-> "ok"]

Live(run) == run.status = "ok" /\ run.left > 0

\* Variant: a directory that is already there is reported as created too.
mkdirStep_reportsExisting(run, path) ==
    IF ~Live(run) THEN run
    ELSE IF existsSync(run.fs, path)
    THEN [run EXCEPT !.created = Append(@, path), !.left = @ - 1]
    ELSE IF mkdirThrows(run.fs, path) THEN [run EXCEPT !.status = "threw"]
    ELSE [run EXCEPT !.fs = mkdirSync(run.fs, path),
                     !.created = Append(@, path),
                     !.left = @ - 1]

\* if (existsSync(fullPath)) continue; mkdirSync(fullPath, {recursive: true}); created.push(dir)
mkdirStep(run, path) ==
    IF ~Live(run) THEN run
    ELSE IF existsSync(run.fs, path) THEN [run EXCEPT !.left = @ - 1]
    ELSE IF mkdirThrows(run.fs, path) THEN [run EXCEPT !.status = "threw"]
    ELSE [run EXCEPT !.fs = mkdirSync(run.fs, path),
                     !.created = Append(@, path),
                     !.left = @ - 1]

\* Variant: an existing file is opened for writing before force is looked
\* at, and is left empty when the write is skipped.
writeStep_truncatesExisting(run, file, force) ==
    IF ~Live(run) THEN run
    ELSE IF writeThrows(run.fs, file.path) THEN [run EXCEPT !.status = "threw"]
    ELSE IF existsSync(run.fs, file.path) /\ ~force
    THEN [run EXCEPT !.fs = writeFileSync(run.fs, file.path, File("", 0, 0, {})),
                     !.left = @ - 1]
    ELSE [run EXCEPT !.fs = writeFileSync(run.fs, file.path, file.content),
                     !.created = Append(@, file.path),
                     !.left = @ - 1]

\* Variant: an existing file is written over whatever force says.
writeStep_overwrites(run, file, force) ==
    IF ~Live(run) THEN run
    ELSE IF writeThrows(run.fs, file.path) THEN [run EXCEPT !.status = "threw"]
    ELSE [run EXCEPT !.fs = writeFileSync(run.fs, file.path, file.content),
                     !.created = Append(@, file.path),
                     !.left = @ - 1]

\* if (existsSync(fullPath) && !force) continue; writeFileSync(fullPath, content); created.push(path)
writeStep(run, file, force) ==
    IF ~Live(run) THEN run
    ELSE IF existsSync(run.fs, file.path) /\ ~force THEN [run EXCEPT !.left = @ - 1]
    ELSE IF writeThrows(run.fs, file.path) THEN [run EXCEPT !.status = "threw"]
    ELSE [run EXCEPT !.fs = writeFileSync(run.fs, file.path, file.content),
                     !.created = Append(@, file.path),
                     !.left = @ - 1]

RECURSIVE mkdirAll(_, _, _)
mkdirAll(run, dirs, i) ==
    IF i > Len(dirs) THEN run ELSE mkdirAll(mkdirStep(run, dirs[i]), dirs, i + 1)

RECURSIVE writeAll(_, _, _, _)
writeAll(run, files, force, i) ==
    IF i > Len(files) THEN run ELSE writeAll(writeStep(run, files[i], force), files, force, i + 1)

BaseDirs ==
    << <<"docs", "design-docs">>,
       <<"docs", "exec-plans", "active">>,
       <<"docs", "exec-plans", "completed">>,
       <<"docs", "generated">>,
       <<"docs", "product-specs">>,
       <<"docs", "references">> >>

BaseFiles(selectedPack) ==
    << [path |-> <<"AGENTS.md">>, content |-> agentsMdTemplate],
       [path |-> <<"ARCHITECTURE.md">>, content |-> architectureMdTemplate],
       [path |-> <<"risk-policy.json">>, content |-> riskPolicyTemplate(selectedPack)],
       [path |-> <<"docs", "golden-principles.md">>, content |-> goldenPrinciplesTemplate],
       [path |-> <<"docs", "design-docs", "index.md">>, content |-> designDocsIndexTemplate],
       [path |-> <<"docs", "design-docs", "core-beliefs.md">>, content |-> coreBeliefsTemplate],
       [path |-> <<"docs", "product-specs", "index.md">>, content |-> productSpecsIndexTemplate],
       [path |-> <<"docs", "exec-plans", "tech-debt-tracker.md">>, content |-> techDebtTrackerTemplate] >>

PackDirs == << <<"scripts">>, <<".github", "workflows">> >>

\* Variant: an existing docs/ is taken to hold every base directory.
createBaseDirectories_trustsDocs(run) ==
    IF existsSync(run.fs, <<"docs">>) THEN [run EXCEPT !.left = @ - Len(BaseDirs)]
    ELSE mkdirAll(run, BaseDirs, 1)

createBaseDirectories(run) == mkdirAll(run, BaseDirs, 1)

\* Variant: the last base file, the debt tracker, is not written.
createBaseFiles_withoutTracker(run, selectedPack, force) ==
    writeAll(run, SubSeq(BaseFiles(selectedPack), 1, Len(BaseFiles(selectedPack)) - 1), force, 1)

createBaseFiles(run, selectedPack, force) == writeAll(run, BaseFiles(selectedPack), force, 1)

scaffoldAutomationPack(run, pack, force) ==
    IF pack = "none" THEN run
    ELSE writeAll(mkdirAll(run, PackDirs, 1), getAgentFactoryPackFiles, force, 1)

\* Number of write steps of a complete run
InitStepCount(selectedPack) ==
    Len(BaseDirs) + Len(BaseFiles(selectedPack))
        + (IF selectedPack = "none" THEN 0 ELSE Len(PackDirs) + Len(getAgentFactoryPackFiles))

\* A step budget no run exhausts: the process is not interrupted.
NoInterrupt == InitStepCount("agent-factory")

(***************************************************************************)
(* init                                                                    *)
(***************************************************************************)
\* Variant: an existing AGENTS.md never stops the run.
ensureInitTarget_neverRefuses(tree, force) ==
    IF ~existsSync(tree, Root) THEN "Directory does not exist" ELSE ""

\* ensureInitTarget: "" when the run may proceed, else the error it exits with
ensureInitTarget(tree, force) ==
    IF ~existsSync(tree, Root) THEN "Directory does not exist"
    ELSE IF ~existsSync(tree, AgentsMdPath) \/ force THEN ""
    ELSE "AGENTS.md already exists. Use --force to overwrite."

\* What a run that passed ensureInitTarget leaves and prints.
\* status: ok (result printed), threw (uncaught exception), killed
\* (interrupted before the end).
initResult(run, packResolution, left) ==
    [fs |-> run.fs,
     status |-> IF run.status = "threw" THEN "threw"
                ELSE IF left < InitStepCount(packResolution.selected) THEN "killed"
                ELSE "ok",
     error |-> "",
     created |-> run.created,
     selected |-> packResolution.selected,
     reason |-> packResolution.reason]

\* runInit, interrupted after `left` write steps (NoInterrupt: never).
\* status error: ensureInitTarget printed a structured error and exited.
runInit(tree, options, left) ==
    LET packResolution == resolveAutomationPack(tree, options.pack)
        selectedPack == packResolution.selected
    IN IF ensureInitTarget(tree, options.force) # ""
       THEN [fs |-> tree, status |-> "error",
             error |-> ensureInitTarget(tree, options.force),
             created |-> << >>, selected |-> "none", reason |-> ""]
       ELSE initResult(
                scaffoldAutomationPack(
                    createBaseFiles(createBaseDirectories(StartRun(tree, left)),
                                    selectedPack, options.force),
                    selectedPack, options.force),
                packResolution, left)

(***************************************************************************)
(* evolve                                                                  *)
(***************************************************************************)
Step(n, action, automated) == [step |-> n, action |-> action, automated |-> automated]

EVOLUTION_PATHS ==
    [ L0 |-> [from |-> "L0: Manual", to |-> "L1: Assisted",
              goal |-> "Get agents into the development loop",
              steps |-> << Step(1, "Create AGENTS.md", TRUE),
                           Step(2, "Create docs/ structure", TRUE),
                           Step(3, "Document architecture", TRUE),
                           Step(4, "Set up agent-friendly CI", FALSE),
                           Step(5, "First agent PR", FALSE) >>,
              success_criteria |-> "Agent can read AGENTS.md, follow pointers, and open a useful PR."],
      L1 |-> [from |-> "L1: Assisted", to |-> "L2: Steered",
              goal |-> "Shift from human-writes-code to human-steers-agent",
              steps |-> << Step(1, "Write golden principles", TRUE),
                           Step(2, "Add structural linters", FALSE),
                           Step(3, "Enable worktree isolation", FALSE),
                           Step(4, "Create exec-plan templates", TRUE),
                           Step(5, "Adopt prompt-first workflow", FALSE) >>,
              success_criteria |-> "Most new code is written by agents, not humans."],
      L2 |-> [from |-> "L2: Steered", to |-> "L3: Autonomous",
              goal |-> "Agent handles full PR lifecycle end-to-end",
              steps |-> << Step(1, "Establish risk tiers and policy-as-code", FALSE),
                           Step(2, "Enforce golden principles mechanically", FALSE),
                           Step(3, "Enable self-validation", FALSE),
                           Step(4, "Add doc-gardening automation", FALSE),
                           Step(5, "Build escalation paths", FALSE) >>,
              success_criteria |-> "Agent can end-to-end ship a feature from prompt to merge."],
      L3 |-> [from |-> "L3: Autonomous", to |-> "L4: Self-Correcting",
              goal |-> "System maintains and improves itself without human intervention",
              steps |-> << Step(1, "Implement active doc-gardening with drift detection", FALSE),
                           Step(2, "Add quality grades", FALSE),
                           Step(3, "Automate enforcement ratio tracking", FALSE),
                           Step(4, "Track tech debt continuously", TRUE),
                           Step(5, "Establish docs-drift rules", FALSE) >>,
              success_criteria |-> "Codebase improves in quality without human intervention."] ]

\* Variant: the L1 band ends one point early.
resolveCurrentLevelKey_shortL1(totalScore) ==
    IF totalScore <= 4 THEN "L0"
    ELSE IF totalScore <= 7 THEN "L1"
    ELSE IF totalScore <= 13 THEN "L2"
    ELSE IF totalScore <= 16 THEN "L3"
    ELSE "L4"

\* Variant: the terminal level starts at 18.
resolveCurrentLevelKey_lateL4(totalScore) ==
    IF totalScore <= 4 THEN "L0"
    ELSE IF totalScore <= 8 THEN "L1"
    ELSE IF totalScore <= 13 THEN "L2"
    ELSE IF totalScore <= 17 THEN "L3"
    ELSE "L4"

resolveCurrentLevelKey(totalScore) ==
    IF totalScore <= 4 THEN "L0"
    ELSE IF totalScore <= 8 THEN "L1"
    ELSE IF totalScore <= 13 THEN "L2"
    ELSE IF totalScore <= 16 THEN "L3"
    ELSE "L4"

\* Variant: the recommendation is not held back at L3.
isFactoryPackRecommended_anyLevel(currentKey, selectedPack, hasFactoryPack) ==
    ~(selectedPack # "agent-factory" \/ hasFactoryPack)

isFactoryPackRecommended(currentKey, selectedPack, hasFactoryPack) ==
    IF selectedPack # "agent-factory" \/ hasFactoryPack THEN FALSE
    ELSE currentKey = "L0" \/ currentKey = "L1" \/ currentKey = "L2"

buildPackState(tree, currentKey) ==
    LET packRecommendation == recommendAutomationPack(tree)
        hasFactoryPack == hasAgentFactoryPack(tree)
    IN [packRecommendation |-> packRecommendation,
        hasFactoryPack |-> hasFactoryPack,
        shouldRecommendFactoryPack |->
            isFactoryPackRecommended(currentKey, packRecommendation.selected, hasFactoryPack)]

\* Variant: the pack step replaces the path's last step.
buildEvolutionSteps_replacesLast(path, shouldRecommendFactoryPack) ==
    IF ~shouldRecommendFactoryPack THEN path.steps
    ELSE Append(SubSeq(path.steps, 1, Len(path.steps) - 1),
                Step(Len(path.steps), "Adopt agent-factory automation pack", TRUE))

buildEvolutionSteps(path, shouldRecommendFactoryPack) ==
    IF ~shouldRecommendFactoryPack THEN path.steps
    ELSE Append(path.steps,
                Step(Len(path.steps) + 1, "Adopt agent-factory automation pack", TRUE))

hasMissingBaseScaffold(tree) ==
    LET requiredArtifacts ==
            { <<"AGENTS.md">>, <<"ARCHITECTURE.md">>, <<"risk-policy.json">>,
              <<"docs", "golden-principles.md">>,
              <<"docs", "design-docs", "index.md">>,
              <<"docs", "design-docs", "core-beliefs.md">>,
              <<"docs", "product-specs", "index.md">>,
              <<"docs", "exec-plans", "tech-debt-tracker.md">>,
              <<"docs", "exec-plans", "active">>,
              <<"docs", "exec-plans", "completed">>,
              <<"docs", "generated">>,
              <<"docs", "references">> }
    IN \E artifact \in requiredArtifacts : ~existsSync(tree, artifact)

\* Variant: every step whose title starts with "Create" asks for init.
ActionMentionsScaffold_anyCreate(action) ==
    action \in {"Create AGENTS.md", "Create docs/ structure", "Create exec-plan templates"}

\* step.action.includes("AGENTS.md") || step.action.includes("docs/"), over
\* the action titles of EVOLUTION_PATHS
ActionMentionsScaffold(action) == action \in {"Create AGENTS.md", "Create docs/ structure"}

\* runInit(...); applied.push("Ran 'reins init'...")
initApplied(init, initPack) ==
    [fs |-> init.fs,
     applied |-> IF init.status # "ok" THEN << >>
                 ELSE IF initPack = "agent-factory"
                 THEN <<"Ran 'reins init' with agent-factory pack">>
                 ELSE <<"Ran 'reins init'">>,
     status |-> init.status,
     error |-> init.error]

\* scaffoldAutomationPack(targetDir, "agent-factory", false); applied.push(...) if it created
packApplied(pack) ==
    [fs |-> pack.fs,
     applied |-> IF pack.status = "ok" /\ Len(pack.created) > 0
                 THEN <<"Applied 'agent-factory' automation pack scaffolding">>
                 ELSE << >>,
     status |-> pack.status,
     error |-> ""]

\* Variant: whenever init is not run, the pack is scaffolded, with force.
applyEvolveScaffolding_forcesPack(tree, runApply, shouldRecommendFactoryPack, path) ==
    IF ~runApply THEN [fs |-> tree, applied |-> << >>, status |-> "ok", error |-> ""]
    ELSE IF /\ \E i \in 1..Len(path.steps) :
                  path.steps[i].automated /\ ActionMentionsScaffold(path.steps[i].action)
            /\ hasMissingBaseScaffold(tree)
    THEN IF shouldRecommendFactoryPack
         THEN initApplied(runInit(tree, [force |-> FALSE, pack |-> "agent-factory"],
                                  NoInterrupt), "agent-factory")
         ELSE initApplied(runInit(tree, [force |-> FALSE, pack |-> "none"], NoInterrupt),
                          "none")
    ELSE packApplied(scaffoldAutomationPack(StartRun(tree, NoInterrupt), "agent-factory", TRUE))

\* Variant: the pack is scaffolded whether or not apply is set.
applyEvolveScaffolding_ignoresFlag(tree, runApply, shouldRecommendFactoryPack, path) ==
    IF ~shouldRecommendFactoryPack
    THEN [fs |-> tree, applied |-> << >>, status |-> "ok", error |-> ""]
    ELSE packApplied(scaffoldAutomationPack(StartRun(tree, NoInterrupt), "agent-factory", FALSE))

\* The tree after the apply step, the applied list, and how the step ended:
\* ok, error (init exited with a structured error), threw (uncaught exception).
applyEvolveScaffolding(tree, runApply, shouldRecommendFactoryPack, path) ==
    IF ~runApply THEN [fs |-> tree, applied |-> << >>, status |-> "ok", error |-> ""]
    ELSE IF /\ \E i \in 1..Len(path.steps) :
                  path.steps[i].automated /\ ActionMentionsScaffold(path.steps[i].action)
            /\ hasMissingBaseScaffold(tree)
    THEN IF shouldRecommendFactoryPack
         THEN initApplied(runInit(tree, [force |-> FALSE, pack |-> "agent-factory"],
                                  NoInterrupt), "agent-factory")
         ELSE initApplied(runInit(tree, [force |-> FALSE, pack |-> "none"], NoInterrupt),
                          "none")
    ELSE IF ~shouldRecommendFactoryPack
    THEN [fs |-> tree, applied |-> << >>, status |-> "ok", error |-> ""]
    ELSE packApplied(scaffoldAutomationPack(StartRun(tree, NoInterrupt), "agent-factory", FALSE))

buildPackRecommendationOutput(packState) ==
    IF packState.shouldRecommendFactoryPack
    THEN [recommended |-> "agent-factory", reason |-> packState.packRecommendation.reason]
    ELSE IF packState.hasFactoryPack
    THEN [recommended |-> "null", reason |-> "Agent-factory automation pack already present."]
    ELSE IF packState.packRecommendation.selected = "agent-factory"
    THEN [recommended |-> "null",
          reason |-> "Agent-factory recommendation suppressed by maturity level."]
    ELSE [recommended |-> "null", reason |-> packState.packRecommendation.reason]

printL4Response(auditResult) ==
    [status |-> "ok",
     current_level |-> auditResult.maturity_level,
     current_score |-> auditResult.total_score,
     message |-> "Already at L4: Self-Correcting.",
     pack_recommendation |-> [recommended |-> "null", reason |-> "Already at L4."]]

\* Array.prototype.sort is stable: an entry goes behind every entry already
\* placed whose score is not greater.
insertByScore(sorted, dimension, scores) ==
    LET k == Cardinality({i \in 1..Len(sorted) :
                             scores[sorted[i]].score <= scores[dimension].score})
    IN SubSeq(sorted, 1, k) \o <<dimension>> \o SubSeq(sorted, k + 1, Len(sorted))

RECURSIVE sortByScore(_, _)
\* Object.entries(result.scores).sort(([, a], [, b]) => a.score - b.score)
sortByScore(scores, n) ==
    IF n = 0 THEN << >>
    ELSE insertByScore(sortByScore(scores, n - 1), Dimensions[n], scores)

\* .map(([dimension, score]) => ({dimension, score, max, findings}))
weakestEntry(dimension, scores) ==
    [dimension |-> dimension, score |-> scores[dimension].score, max |-> scores[dimension].max]

\* Variant: slice(0, 3) of the entries in declaration order, unsorted.
buildWeakestDimensions_unsorted(result) ==
    [i \in 1..3 |-> weakestEntry(Dimensions[i], result.scores)]

buildWeakestDimensions(result) ==
    [i \in 1..3 |-> weakestEntry(sortByScore(result.scores, Len(Dimensions))[i], result.scores)]

\* console.log(JSON.stringify({command: "evolve", ...})), or the error the apply step ended with
printEvolveResult(auditResult, path, packState, scaffold) ==
    IF scaffold.status # "ok"
    THEN [fs |-> scaffold.fs,
          output |-> [status |-> scaffold.status, error |-> scaffold.error]]
    ELSE [fs |-> scaffold.fs,
          output |-> [status |-> "ok",
                      current_level |-> auditResult.maturity_level,
                      current_score |-> auditResult.total_score,
                      next_level |-> path.to,
                      goal |-> path.goal,
                      steps |-> buildEvolutionSteps(path, packState.shouldRecommendFactoryPack),
                      success_criteria |-> path.success_criteria,
                      weakest_dimensions |-> buildWeakestDimensions(auditResult),
                      pack_recommendation |-> buildPackRecommendationOutput(packState),
                      applied |-> scaffold.applied]]

\* runEvolve below the L4 return
evolveOnPath(tree, runApply, auditResult, path, packState) ==
    printEvolveResult(auditResult, path, packState,
        applyEvolveScaffolding(tree, runApply, packState.shouldRecommendFactoryPack, path))

\* runEvolve after getAuditResultOrExit
evolveFromAudit(tree, runApply, auditResult, currentKey) ==
    IF currentKey = "L4"
    THEN [fs |-> tree, output |-> printL4Response(auditResult)]
    ELSE evolveOnPath(tree, runApply, auditResult, EVOLUTION_PATHS[currentKey],
                      buildPackState(tree, currentKey))

\* getAuditResultOrExit: the audit result, or the error printed before exit(1)
getAuditResultOrExit(tree, runApply, auditResult) ==
    IF auditResult.status # "ok"
    THEN [fs |-> tree, output |-> [status |-> "error", error |-> auditResult.error]]
    ELSE evolveFromAudit(tree, runApply, auditResult,
                         resolveCurrentLevelKey(auditResult.total_score))

\* runEvolve: the tree it leaves and what it prints
runEvolve(tree, runApply) == getAuditResultOrExit(tree, runApply, runAudit(tree))

(***************************************************************************)
(* doctor                                                                  *)
(***************************************************************************)
DoctorCheck(check, status, fix) == [check |-> check, status |-> status, fix |-> fix]

\* Variant: an over-long AGENTS.md is a failure.
collectDoctorAgentsCheck_failsLong(tree) ==
    IF ~existsSync(tree, AgentsMdPath)
    THEN <<DoctorCheck("AGENTS.md missing", "fail", "Run 'reins init .' to create AGENTS.md")>>
    ELSE IF tree[AgentsMdPath].lines <= AgentsMaxLines
    THEN <<DoctorCheck("AGENTS.md exists and concise", "pass", "")>>
    ELSE <<DoctorCheck("AGENTS.md too long", "fail",
                       "Trim AGENTS.md to ~100 lines. Move details to docs/.")>>

collectDoctorAgentsCheck(tree) ==
    IF ~existsSync(tree, AgentsMdPath)
    THEN <<DoctorCheck("AGENTS.md missing", "fail", "Run 'reins init .' to create AGENTS.md")>>
    ELSE IF tree[AgentsMdPath].lines <= AgentsMaxLines
    THEN <<DoctorCheck("AGENTS.md exists and concise", "pass", "")>>
    ELSE <<DoctorCheck("AGENTS.md too long", "warn",
                       "Trim AGENTS.md to ~100 lines. Move details to docs/.")>>

\* readFileSync(agentsMd) outside any try block
collectDoctorAgentsCheckThrows(tree) ==
    existsSync(tree, AgentsMdPath) /\ readThrows(tree, AgentsMdPath)

collectDoctorArchitectureCheck(tree) ==
    IF existsSync(tree, ArchMdPath)
    THEN <<DoctorCheck("ARCHITECTURE.md exists", "pass", "")>>
    ELSE <<DoctorCheck("ARCHITECTURE.md missing", "fail",
                       "Run 'reins init .' to create ARCHITECTURE.md")>>

collectDoctorRequiredDocChecks(tree) ==
    LET requiredDocs ==
            << [path |-> <<"docs", "design-docs", "index.md">>,
                doc |-> "docs/design-docs/index.md"],
               [path |-> <<"docs", "design-docs", "core-beliefs.md">>,
                doc |-> "docs/design-docs/core-beliefs.md"],
               [path |-> <<"docs", "product-specs", "index.md">>,
                doc |-> "docs/product-specs/index.md"],
               [path |-> <<"docs", "exec-plans", "tech-debt-tracker.md">>,
                doc |-> "docs/exec-plans/tech-debt-tracker.md"],
               [path |-> <<"docs", "golden-principles.md">>,
                doc |-> "docs/golden-principles.md"] >>
    IN [i \in 1..Len(requiredDocs) |->
            IF existsSync(tree, requiredDocs[i].path)
            THEN DoctorCheck(requiredDocs[i].doc \o " exists", "pass", "")
            ELSE DoctorCheck(requiredDocs[i].doc \o " missing", "fail",
                             "Run 'reins init .' to create missing files")]

\* Variant: the linter warning comes without a fix.
collectDoctorLinterCheck_noFix(tree) ==
    IF existsSync(tree, <<"biome.json">>)
    THEN <<DoctorCheck("Linter configured", "pass", "")>>
    ELSE <<DoctorCheck("No linter configured", "warn", "")>>

collectDoctorLinterCheck(tree) ==
    LET linterFiles == {".eslintrc.json", ".eslintrc.js", "eslint.config.js",
                        "eslint.config.mjs", "biome.json"}
    IN IF \E file \in linterFiles : existsSync(tree, <<file>>)
       THEN <<DoctorCheck("Linter configured", "pass", "")>>
       ELSE <<DoctorCheck("No linter configured", "warn",
                          "Add eslint or biome config to enforce architectural constraints")>>

\* `CI enforces ${enforcementSteps.length} quality gates`
ciGatesCheck(n) == "CI enforces " \o ToString(n) \o " quality gates"

\* Variant: the doctor asks for three gates.
collectDoctorCiChecks_threeGates(tree) ==
    LET doctorCiPaths == {WorkflowDir, <<".gitlab-ci.yml">>, <<"Jenkinsfile">>}
    IN IF ~\E path \in doctorCiPaths : existsSync(tree, path)
       THEN <<DoctorCheck("No CI pipeline", "warn",
                          "Add CI pipeline to enforce golden principles mechanically")>>
       ELSE IF ~existsSync(tree, WorkflowDir)
       THEN <<DoctorCheck("CI pipeline exists", "pass", "")>>
       ELSE IF Cardinality(scanWorkflowsForEnforcement(tree, WorkflowDir)) >= 3
       THEN <<DoctorCheck("CI pipeline exists", "pass", ""),
              DoctorCheck(ciGatesCheck(Cardinality(scanWorkflowsForEnforcement(tree, WorkflowDir))),
                          "pass", "")>>
       ELSE <<DoctorCheck("CI pipeline exists", "pass", ""),
              DoctorCheck("CI lacks enforcement steps", "warn",
                          "Add lint, test, and typecheck steps to CI workflows")>>

collectDoctorCiChecks(tree) ==
    LET doctorCiPaths == {WorkflowDir, <<".gitlab-ci.yml">>, <<"Jenkinsfile">>}
    IN IF ~\E path \in doctorCiPaths : existsSync(tree, path)
       THEN <<DoctorCheck("No CI pipeline", "warn",
                          "Add CI pipeline to enforce golden principles mechanically")>>
       ELSE IF ~existsSync(tree, WorkflowDir)
       THEN <<DoctorCheck("CI pipeline exists", "pass", "")>>
       ELSE IF Cardinality(scanWorkflowsForEnforcement(tree, WorkflowDir)) >= 2
       THEN <<DoctorCheck("CI pipeline exists", "pass", ""),
              DoctorCheck(ciGatesCheck(Cardinality(scanWorkflowsForEnforcement(tree, WorkflowDir))),
                          "pass", "")>>
       ELSE <<DoctorCheck("CI pipeline exists", "pass", ""),
              DoctorCheck("CI lacks enforcement steps", "warn",
                          "Add lint, test, and typecheck steps to CI workflows")>>

\* Variant: a missing policy file is passed over in silence.
collectDoctorRiskPolicyCheck_silent(tree) ==
    IF existsSync(tree, RiskPolicyPath)
    THEN <<DoctorCheck("risk-policy.json exists", "pass", "")>>
    ELSE << >>

collectDoctorRiskPolicyCheck(tree) ==
    IF existsSync(tree, RiskPolicyPath)
    THEN <<DoctorCheck("risk-policy.json exists", "pass", "")>>
    ELSE <<DoctorCheck("No risk-policy.json", "warn",
                       "Create risk-policy.json with risk tiers and docs-drift rules")>>

collectDoctorVerificationChecks(tree) ==
    IF readVerifiedDocs(tree) # {}
    THEN <<DoctorCheck("Verification headers in doc(s)", "pass", "")>>
    ELSE <<DoctorCheck("No verification headers in docs", "warn",
                       "Add <!-- Verified: YYYY-MM-DD --> headers to key docs for freshness tracking")>>

collectDoctorHierarchicalAgentsCheck(tree) ==
    \* /^AGENTS\.md$/ over the entry names of the universe
    IF Cardinality(findFiles(tree, Root, {"AGENTS.md"}, 3)) >= 2
    THEN <<DoctorCheck("Hierarchical AGENTS.md", "pass", "")>>
    ELSE << >>

collectDoctorStructuralLintChecks(tree) ==
    IF ~existsSync(tree, ScriptsDir) THEN << >>
    \* /lint|structure/i over the entry names of the universe
    ELSE IF findFiles(tree, ScriptsDir, {"lint-structure.mjs", "structural-lint.yml"}, 1) # {}
    THEN <<DoctorCheck("Structural lint scripts found", "pass", "")>>
    ELSE <<DoctorCheck("No structural lint scripts", "warn",
                       "Add scripts/structural-lint.ts to enforce layer and dependency rules")>>

\* console.log(JSON.stringify({command: "doctor", summary, checks}))
doctorReport(checks) ==
    [status |-> "ok",
     summary |-> [passed |-> Cardinality({i \in 1..Len(checks) : checks[i].status = "pass"}),
                  failed |-> Cardinality({i \in 1..Len(checks) : checks[i].status = "fail"}),
                  warnings |-> Cardinality({i \in 1..Len(checks) : checks[i].status = "warn"}),
                  total |-> Len(checks)],
     checks |-> checks]

\* runDoctor: the report it prints, the error it exits with, or an uncaught exception
runDoctor(tree) ==
    IF ~existsSync(tree, Root)
    THEN [status |-> "error", error |-> "Directory does not exist"]
    ELSE IF collectDoctorAgentsCheckThrows(tree)
    THEN [status |-> "threw", error |-> "read failed"]
    ELSE doctorReport(collectDoctorAgentsCheck(tree)
                      \o collectDoctorArchitectureCheck(tree)
                      \o collectDoctorRequiredDocChecks(tree)
                      \o collectDoctorLinterCheck(tree)
                      \o collectDoctorCiChecks(tree)
                      \o collectDoctorRiskPolicyCheck(tree)
                      \o collectDoctorVerificationChecks(tree)
                      \o collectDoctorHierarchicalAgentsCheck(tree)
                      \o collectDoctorStructuralLintChecks(tree))

(***************************************************************************)
(* Target trees the commands are run on: a few fixtures, each changed by   *)
(* at most MaxEdits user edits.                                            *)
(***************************************************************************)
MaxEdits == 1

MissingTree == [p \in Paths |-> Absent]

EmptyTree == [MissingTree EXCEPT ![Root] = Dir]

\* Write a node at p, creating the directories above it.
Put(tree, p, node) ==
    [q \in Paths |-> IF q = p THEN node
                     ELSE IF IsPrefix(q, p) THEN Dir
                     ELSE IF IsPrefix(p, q) THEN Absent
                     ELSE tree[q]]

\* Remove p and everything below it.
Remove(tree, p) == [q \in Paths |-> IF IsPrefix(p, q) THEN Absent ELSE tree[q]]

UserFile(body, lines, marks) == File(body, lines, 0, marks)

PackageJson(body, deps, marks) == File(body, 10, deps, marks \cup {"json"})

CiWorkflow(body, gates) == File(body, 20, 0, {GateMark(g) : g \in gates})

ScaffoldedTree == runInit(EmptyTree, [force |-> FALSE, pack |-> "none"], NoInterrupt).fs

NodeProjectTree ==
    Put(Put(Put(Put(Put(EmptyTree,
        <<"package.json">>, PackageJson("pkg-app", 5, {"script-dev"})),
        <<"biome.json">>, UserFile("biome", 12, {})),
        <<".github", "workflows", "ci.yml">>, CiWorkflow("ci-lint-test", {"lint", "test"})),
        <<"src", "index.ts">>, UserFile("index", 30, {"help-surface"})),
        <<"README.md">>, UserFile("readme", 40, {"doctor-word"}))

AutonomousTree ==
    Put(Put(Put(ScaffoldedTree,
        <<"package.json">>, PackageJson("pkg-app", 5, {"script-dev"})),
        <<"biome.json">>, UserFile("biome", 12, {})),
        <<".github", "workflows", "ci.yml">>, CiWorkflow("ci-lint-test", {"lint", "test"}))

MatureTree ==
    Put(Put(AutonomousTree,
        <<"CLAUDE.md">>, UserFile("claude", 20, {})),
        <<"vercel.json">>, UserFile("vercel", 5, {}))

Fixtures ==
    {MissingTree, EmptyTree, NodeProjectTree, ScaffoldedTree, AutonomousTree, MatureTree}

Edits ==
    { [op |-> "put", path |-> <<"AGENTS.md">>, node |-> UserFile("user-150", 150, {})],
      [op |-> "put", path |-> <<"AGENTS.md">>, node |-> UserFile("user-151", 151, {})],
      [op |-> "put", path |-> <<"AGENTS.md">>, node |-> Dir],
      [op |-> "rm", path |-> <<"AGENTS.md">>, node |-> Absent],
      [op |-> "put", path |-> <<"ARCHITECTURE.md">>, node |-> UserFile("user", 10, {})],
      [op |-> "put", path |-> <<"ARCHITECTURE.md">>, node |-> Dir],
      [op |-> "rm", path |-> <<"risk-policy.json">>, node |-> Absent],
      [op |-> "put", path |-> <<"docs">>, node |-> UserFile("user", 1, {})],
      [op |-> "put", path |-> <<"docs", "golden-principles.md">>, node |-> Dir],
      [op |-> "put", path |-> <<"docs", "design-docs", "index.md">>, node |-> Dir],
      [op |-> "put", path |-> <<"docs", "design-docs", "index.md">>,
       node |-> UserFile("user", 4, {"verified-hdr"})],
      [op |-> "rm", path |-> <<"docs", "design-docs", "core-beliefs.md">>, node |-> Absent],
      [op |-> "rm", path |-> <<"docs", "exec-plans", "active">>, node |-> Absent],
      [op |-> "put", path |-> <<"package.json">>, node |-> PackageJson("pkg-min", 0, {})],
      [op |-> "rm", path |-> <<"package.json">>, node |-> Absent],
      [op |-> "put", path |-> <<"go.mod">>, node |-> UserFile("user", 3, {})],
      [op |-> "put", path |-> <<"package.json">>,
       node |-> PackageJson("pkg-cli-heavy", 20, {"script-dev", "cli"})],
      [op |-> "put", path |-> <<"package.json">>,
       node |-> PackageJson("pkg-mono", 40, {"workspaces"})],
      [op |-> "put", path |-> <<"package.json">>, node |-> UserFile("pkg-broken", 2, {"obs-dep"})],
      [op |-> "put", path |-> <<"packages", "app", "package.json">>,
       node |-> PackageJson("pkg-workspace", 30, {"script-dev"})],
      [op |-> "put", path |-> <<"packages", "app", "AGENTS.md">>, node |-> UserFile("user", 5, {})],
      [op |-> "put", path |-> <<".github">>, node |-> Dir],
      [op |-> "put", path |-> <<".github", "workflows", "ci.yml">>,
       node |-> CiWorkflow("ci-checkout", {})],
      [op |-> "put", path |-> <<".github", "workflows", "ci.yml">>,
       node |-> CiWorkflow("ci-full", {"lint", "test", "build", "typecheck"})],
      [op |-> "put", path |-> <<".github", "workflows", "ci.yml">>,
       node |-> CiWorkflow("ci-audit-format", {"audit", "prettier", "format"})],
      [op |-> "put", path |-> <<"Jenkinsfile">>, node |-> UserFile("user", 9, {})],
      [op |-> "put", path |-> <<"biome.json">>, node |-> UserFile("biome", 12, {})],
      [op |-> "put", path |-> <<"CLAUDE.md">>, node |-> UserFile("claude", 20, {"verified-hdr"})],
      [op |-> "put", path |-> <<"vercel.json">>, node |-> UserFile("vercel", 5, {})],
      [op |-> "put", path |-> <<"src", "index.ts">>, node |-> UserFile("index", 30, {})],
      [op |-> "put", path |-> <<"lib", "a", "b", "deep.ts">>, node |-> UserFile("deep", 3, {})],
      [op |-> "put", path |-> <<"scripts">>, node |-> UserFile("user", 1, {})],
      [op |-> "put", path |-> <<"scripts", "lint-structure.mjs">>, node |-> UserFile("user", 25, {})] }

\* Edits are made inside an existing target directory.
ApplyEdit(tree, e) ==
    IF ~existsSync(tree, Root) THEN tree
    ELSE IF e.op = "rm" THEN Remove(tree, e.path)
    ELSE Put(tree, e.path, e.node)

RECURSIVE EditedTrees(_)
EditedTrees(k) ==
    IF k = 0 THEN Fixtures
    ELSE LET prev == EditedTrees(k - 1)
         IN prev \cup {ApplyEdit(t, e) : t \in prev, e \in Edits}

StartTrees == EditedTrees(MaxEdits)

(***************************************************************************)
(* The commands.  out is what the last command printed.                    *)
(***************************************************************************)
InitOptions == [force : BOOLEAN, pack : {"none", "auto", "agent-factory"}]

NoOutput == [cmd |-> "none", status |-> "none"]

NoProbe == [done |-> FALSE, a |-> 0, b |-> 0]

NotKilled == 0 - 1

Init ==
    /\ fs \in StartTrees
    /\ out = NoOutput
    /\ probe = NoProbe
    /\ killedAt = NotKilled

runAuditCommand ==
    /\ \E result \in {runAudit(fs)} :
           out' = [cmd |-> "audit", status |-> result.status, result |-> result]
    /\ UNCHANGED <<fs, probe, killedAt>>

runInitCommand ==
    \E options \in InitOptions :
        \E r \in {runInit(fs, options, NoInterrupt)} :
        /\ fs' = r.fs
        /\ out' = [cmd |-> "init", options |-> options, status |-> r.status,
                   error |-> r.error, created |-> r.created, selected |-> r.selected,
                   reason |-> r.reason]
        /\ UNCHANGED <<probe, killedAt>>

runEvolveCommand ==
    \E runApply \in BOOLEAN :
        \E r \in {runEvolve(fs, runApply)} :
        /\ fs' = r.fs
        /\ out' = [cmd |-> "evolve", apply |-> runApply, status |-> r.output.status,
                   output |-> r.output]
        /\ UNCHANGED <<probe, killedAt>>

runDoctorCommand ==
    /\ \E report \in {runDoctor(fs)} :
           out' = [cmd |-> "doctor", status |-> report.status, report |-> report]
    /\ UNCHANGED <<fs, probe, killedAt>>

Next == runAuditCommand \/ runInitCommand \/ runEvolveCommand \/ runDoctorCommand

Spec == Init /\ [][Next]_vars

(***************************************************************************)
(* Interrupted scaffolding: one init run is killed after a prefix of its   *)
(* write steps, then init is run again.                                    *)
(***************************************************************************)
CrashTrees ==
    { EmptyTree, NodeProjectTree, ScaffoldedTree,
      Remove(ScaffoldedTree, <<"AGENTS.md">>),
      Put(EmptyTree, <<"ARCHITECTURE.md">>, UserFile("user", 10, {})),
      Put(EmptyTree, <<"docs">>, UserFile("user", 1, {})) }

InitCrash ==
    /\ fs \in CrashTrees
    /\ out = NoOutput
    /\ probe = NoProbe
    /\ killedAt = NotKilled

interruptInit ==
    /\ killedAt = NotKilled
    /\ \E options \in InitOptions :
        \E left \in 0..(InitStepCount(resolveAutomationPack(fs, options.pack).selected) - 1) :
            \E r \in {runInit(fs, options, left)} :
            /\ r.status = "killed"
            /\ fs' = r.fs
            /\ out' = [cmd |-> "init", options |-> options, status |-> r.status,
                       error |-> r.error, created |-> r.created, selected |-> r.selected,
                   reason |-> r.reason]
            /\ killedAt' = left
    /\ UNCHANGED probe

NextCrash == interruptInit \/ runInitCommand

SpecCrash == InitCrash /\ [][NextCrash]_vars

(***************************************************************************)
(* The maturity resolver on its own: two total scores are resolved.        *)
(***************************************************************************)
Scores == 0..MaxScore

InitLevel ==
    /\ fs = EmptyTree
    /\ out = NoOutput
    /\ probe \in [done : {FALSE}, a : Scores, b : Scores]
    /\ killedAt = NotKilled

resolveProbe ==
    /\ ~probe.done
    /\ probe' = [done |-> TRUE, a |-> probe.a, b |-> probe.b,
                 levelA |-> resolveMaturityLevel(probe.a),
                 levelB |-> resolveMaturityLevel(probe.b),
                 keyA |-> resolveCurrentLevelKey(probe.a)]
    /\ UNCHANGED <<fs, out, killedAt>>

SpecLevel == InitLevel /\ [][resolveProbe]_vars

(***************************************************************************)
(* The scanner on its own: findFiles is run once, with some depth bound,   *)
(* on a tree that may hold a symbolic link (to an ancestor, to itself, to  *)
(* a file, to nothing), a directory that may not be listed and an ignored  *)
(* directory.                                                              *)
(***************************************************************************)
MaxScanDepth == 4

ScanBase ==
    Put(Put(EmptyTree, <<"lib", "a", "b", "deep.ts">>, UserFile("deep", 3, {})),
        <<"lib", "index.ts">>, UserFile("index", 30, {}))

ScanTrees ==
    { [[[ScanBase EXCEPT ![<<"lib", "a", "up">>] = up]
                  EXCEPT ![<<"lib", "a", "b">>] = b]
                  EXCEPT ![<<"lib", "node_modules">>] = nm.dir,
                         ![<<"lib", "node_modules", "index.ts">>] = nm.file] :
        up \in {Absent, Link(Root), Link(<<"lib">>), Link(<<"lib", "a">>),
                Link(<<"lib", "a", "up">>), Link(<<"lib", "gone">>),
                Link(<<"lib", "index.ts">>)},
        b \in {Dir, LockedDir},
        nm \in {[dir |-> Absent, file |-> Absent],
                [dir |-> Dir, file |-> UserFile("vendored", 1, {})]} }

\* /\.ts$/ over the entry names of the scanned trees
ScanPattern == {"index.ts", "deep.ts"}

InitScan ==
    /\ fs \in ScanTrees
    /\ out = NoOutput
    /\ probe \in [done : {FALSE}, maxDepth : 0..MaxScanDepth]
    /\ killedAt = NotKilled

findFilesProbe ==
    /\ ~probe.done
    /\ probe' = [done |-> TRUE, maxDepth |-> probe.maxDepth,
                 results |-> findFiles(fs, Root, ScanPattern, probe.maxDepth),
                 walked |-> walkedDirs(fs, Root, ScanPattern, probe.maxDepth)]
    /\ UNCHANGED <<fs, out, killedAt>>

SpecScan == InitScan /\ [][findFilesProbe]_vars

TypeOK ==
    /\ fs \in [Paths -> [kind : {"absent", "dir", "file"}, body : STRING, lines : Nat,
                         deps : Nat, marks : SUBSET STRING]]
    /\ WellFormed(fs)
    /\ out.cmd \in {"none", "audit", "init", "evolve", "doctor"}
    /\ killedAt \in NotKilled..NoInterrupt

(***************************************************************************)
(* Properties.                                                             *)
(***************************************************************************)

\* C1: resolveMaturityLevel sends every total score 0..18 to exactly one of
\* the five levels, L0 for 0-4, L1 for 5-8, L2 for 9-13, L3 for 14-16 and
\* L4 for 17-18, and a higher score never resolves to a lower level.
C1_LevelPartition ==
    probe.done =>
        LET Rank(level) ==
                CASE level = "L0: Manual" -> 0
                  [] level = "L1: Assisted" -> 1
                  [] level = "L2: Steered" -> 2
                  [] level = "L3: Autonomous" -> 3
                  [] level = "L4: Self-Correcting" -> 4
                  [] OTHER -> 0 - 1
        IN /\ Rank(probe.levelA) \in 0..4
           /\ (probe.a \in 0..4 <=> Rank(probe.levelA) = 0)
           /\ (probe.a \in 5..8 <=> Rank(probe.levelA) = 1)
           /\ (probe.a \in 9..13 <=> Rank(probe.levelA) = 2)
           /\ (probe.a \in 14..16 <=> Rank(probe.levelA) = 3)
           /\ (probe.a \in 17..18 <=> Rank(probe.levelA) = 4)
           /\ (probe.a <= probe.b => Rank(probe.levelA) <= Rank(probe.levelB))

\* Scores on both sides of the L2/L3 threshold have been resolved.
C1_Witness ==
    /\ probe.done
    /\ probe.a = 13 /\ probe.levelA = "L2: Steered"
    /\ probe.b = 14 /\ probe.levelB = "L3: Autonomous"

\* C2: the total_score of an audit result is the sum of its six dimension
\* scores.
C2_TotalIsSum ==
    (out.cmd = "audit" /\ out.status = "ok") =>
        out.result.total_score =
            out.result.scores.repository_knowledge.score
              + out.result.scores.architecture_enforcement.score
              + out.result.scores.agent_legibility.score
              + out.result.scores.golden_principles.score
              + out.result.scores.agent_workflow.score
              + out.result.scores.garbage_collection.score

\* An audit of the freshly scaffolded tree: 3 + 1 + 0 + 2 + 1 + 3.
C2_Witness ==
    /\ out.cmd = "audit" /\ out.status = "ok"
    /\ out.result.total_score = 10
    /\ out.result.scores.repository_knowledge.score = 3
    /\ out.result.scores.golden_principles.score = 2

\* C3: every dimension score of an audit result lies in 0..3 and the total
\* lies in 0..18.
C3_ScoresInRange ==
    (out.cmd = "audit" /\ out.status = "ok") =>
        /\ DOMAIN out.result.scores = {Dimensions[i] : i \in 1..Len(Dimensions)}
        /\ \A d \in DOMAIN out.result.scores : out.result.scores[d].score \in 0..3
        /\ out.result.total_score \in 0..18

\* An audit in which one dimension is at its cap and the total is at its cap.
C3_Witness ==
    /\ out.cmd = "audit" /\ out.status = "ok"
    /\ out.result.scores.garbage_collection.score = 3
    /\ out.result.total_score = 18

\* C4: init without force and evolve (with or without apply, pack
\* scaffolding included) leave every file that existed before the command
\* exactly as it was.
C4_NoForceKeepsFiles ==
    [][ ((out'.cmd = "init" /\ ~out'.options.force) \/ out'.cmd = "evolve") =>
            \A p \in Paths : IsFile(fs, p) => fs'[p] = fs[p] ]_vars

\* evolve --apply has scaffolded around a user's ARCHITECTURE.md, which still
\* has the user's content.
C4_Witness ==
    /\ out.cmd = "evolve" /\ out.apply /\ out.status = "ok"
    /\ "applied" \in DOMAIN out.output
    /\ Len(out.output.applied) > 0
    /\ IsFile(fs, AgentsMdPath)
    /\ fs[ArchMdPath].body = "user"

\* C5 as written: after an init run is interrupted after any prefix of its
\* writes, running init again with the same pack and without force (and
\* without an exception) completes every baseline directory and file.
C5_RerunCompletesBaseline ==
    [][ ( /\ out.cmd = "init" /\ out.status = "killed"
          /\ out'.cmd = "init" /\ out'.status \in {"ok", "error"}
          /\ ~out'.options.force
          /\ out'.options.pack = out.options.pack ) =>
            /\ \A i \in 1..Len(BaseDirs) : IsDir(fs', BaseDirs[i])
            /\ \A i \in 1..Len(BaseFiles("none")) : IsFile(fs', BaseFiles("none")[i].path) ]_vars

\* C5 amended: after an interrupted init run, init without force is refused
\* with the already-exists error and changes nothing if AGENTS.md is there;
\* if AGENTS.md is not there and the run reaches its end, every baseline
\* directory and file exists afterwards.
C5_RerunUnlessAgentsWritten ==
    [][ ( /\ out.cmd = "init" /\ out.status = "killed"
          /\ out'.cmd = "init" /\ out'.status # "killed"
          /\ ~out'.options.force ) =>
            IF existsSync(fs, AgentsMdPath)
            THEN /\ out'.status = "error"
                 /\ out'.error = "AGENTS.md already exists. Use --force to overwrite."
                 /\ fs' = fs
            ELSE out'.status = "ok" =>
                    /\ \A i \in 1..Len(BaseDirs) : IsDir(fs', BaseDirs[i])
                    /\ \A i \in 1..Len(BaseFiles("none")) :
                           IsFile(fs', BaseFiles("none")[i].path) ]_vars

\* A run was interrupted after some base directories were made, and a later
\* init without force created the rest of the baseline.
C5_Witness ==
    /\ killedAt \in 1..Len(BaseDirs)
    /\ out.cmd = "init" /\ out.status = "ok" /\ ~out.options.force
    /\ Len(out.created) > 0
    /\ Len(out.created) < InitStepCount(out.selected)
    /\ \A i \in 1..Len(BaseDirs) : IsDir(fs, BaseDirs[i])
    /\ \A i \in 1..Len(BaseFiles("none")) : IsFile(fs, BaseFiles("none")[i].path)

\* C6: init on an existing target that holds AGENTS.md, without force, ends
\* with the already-exists error and leaves the tree exactly as it was.
C6_RefusesExistingAgents ==
    [][ ( /\ out'.cmd = "init" /\ ~out'.options.force
          /\ existsSync(fs, Root)
          /\ existsSync(fs, AgentsMdPath) ) =>
            /\ out'.status = "error"
            /\ out'.error = "AGENTS.md already exists. Use --force to overwrite."
            /\ out'.created = << >>
            /\ fs' = fs ]_vars

\* init was refused on a tree holding a user's AGENTS.md and nothing of the
\* baseline has been created.
C6_Witness ==
    /\ out.cmd = "init" /\ ~out.options.force
    /\ out.status = "error"
    /\ out.error = "AGENTS.md already exists. Use --force to overwrite."
    /\ fs[AgentsMdPath].body = "user-150"
    /\ ~existsSync(fs, DocsDir)

\* C7: evolve on an existing target whose audit can be read ends with a
\* complete result, never an error, also when AGENTS.md is there and other
\* baseline artifacts are missing.
C7_EvolveCompletesWithExistingAgents ==
    [][ ( /\ out'.cmd = "evolve"
          /\ existsSync(fs, Root)
          /\ IsFile(fs, AgentsMdPath)
          /\ ~applyAuditScoringThrows(fs) ) =>
            out'.status = "ok" ]_vars

\* C8: an audit of an existing target directory never fails.
C8_AuditFailsOnlyWhenMissing ==
    (out.cmd = "audit" /\ existsSync(fs, Root)) => out.status = "ok"

\* C9: when the audited total is 17 or 18, evolve prints only the completion
\* message, without next_level, steps or applied, and changes nothing in the
\* tree, with or without apply.
C9_TerminalShortCircuit ==
    [][ ( /\ out'.cmd = "evolve"
          /\ runAudit(fs).status = "ok"
          /\ runAudit(fs).total_score >= 17 ) =>
            /\ fs' = fs
            /\ out'.status = "ok"
            /\ out'.output.current_score = runAudit(fs).total_score
            /\ "message" \in DOMAIN out'.output
            /\ DOMAIN out'.output \cap
                   {"next_level", "goal", "steps", "success_criteria", "applied"} = {} ]_vars

\* evolve --apply has answered for a tree that scores 17 and lacks part of
\* the baseline.
C9_Witness ==
    /\ out.cmd = "evolve" /\ out.apply /\ out.status = "ok"
    /\ out.output.current_score = 17
    /\ "message" \in DOMAIN out.output
    /\ hasMissingBaseScaffold(fs)

\* C10: there are exactly four evolution paths, from each level below L4 to
\* the level directly above it, each with five steps; an evolve result for a
\* tree at level k < L4 names level k+1 as next_level and starts with the
\* five steps of that path.
C10_NextLevelPath ==
    LET Label == <<"L0: Manual", "L1: Assisted", "L2: Steered", "L3: Autonomous",
                   "L4: Self-Correcting">>
        Key == <<"L0", "L1", "L2", "L3">>
        k == CHOOSE i \in 1..5 : Label[i] = out.output.current_level
    IN /\ DOMAIN EVOLUTION_PATHS = {Key[i] : i \in 1..4}
       /\ \A i \in 1..4 :
              /\ EVOLUTION_PATHS[Key[i]].from = Label[i]
              /\ EVOLUTION_PATHS[Key[i]].to = Label[i + 1]
              /\ Len(EVOLUTION_PATHS[Key[i]].steps) = 5
       /\ (out.cmd = "evolve" /\ out.status = "ok") =>
              /\ out.output.current_level \in {Label[i] : i \in 1..5}
              /\ IF k = 5 THEN "next_level" \notin DOMAIN out.output
                 ELSE /\ out.output.next_level = Label[k + 1]
                      /\ Len(out.output.steps) >= 5
                      /\ SubSeq(out.output.steps, 1, 5) = EVOLUTION_PATHS[Key[k]].steps

\* evolve has answered for an L1 tree with the L1 path's steps followed by the
\* pack step.
C10_Witness ==
    /\ out.cmd = "evolve" /\ out.status = "ok"
    /\ out.output.current_level = "L1: Assisted"
    /\ out.output.next_level = "L2: Steered"
    /\ Len(out.output.steps) = 6

\* C11: evolve recommends the agent-factory pack exactly when the level is
\* L0, L1 or L2, not all seven pack files are present and auto-detection
\* selects agent-factory.  When it recommends, the steps are the path's five
\* steps followed by one automated step numbered 6; otherwise the steps are
\* the path's five steps and recommended is null, and at L3 with an eligible
\* stack and no pack the reason says the recommendation is suppressed.
C11_PackRecommendation ==
    [][ (out'.cmd = "evolve" /\ out'.status = "ok") =>
            LET o == out'.output
                packFiles ==
                    { <<"scripts", "lint-structure.mjs">>,
                      <<"scripts", "doc-gardener.mjs">>,
                      <<"scripts", "check-changed-doc-freshness.mjs">>,
                      <<"scripts", "pr-review.mjs">>,
                      <<".github", "workflows", "risk-policy-gate.yml">>,
                      <<".github", "workflows", "pr-review-bot.yml">>,
                      <<".github", "workflows", "structural-lint.yml">> }
                lowLevel == o.current_level \in {"L0: Manual", "L1: Assisted", "L2: Steered"}
                packMissing == \E f \in packFiles : ~existsSync(fs, f)
                eligible == resolveAutomationPack(fs, "auto").selected = "agent-factory"
                expected == lowLevel /\ packMissing /\ eligible
            IN /\ (o.pack_recommendation.recommended = "agent-factory") <=> expected
               /\ ~expected => o.pack_recommendation.recommended = "null"
               /\ "steps" \in DOMAIN o =>
                      /\ Len(o.steps) = IF expected THEN 6 ELSE 5
                      /\ \A i \in 1..Len(o.steps) : o.steps[i].step = i
                      /\ expected => o.steps[6].automated
               /\ (o.current_level = "L3: Autonomous" /\ packMissing /\ eligible) =>
                      o.pack_recommendation.reason =
                          "Agent-factory recommendation suppressed by maturity level." ]_vars

\* evolve has recommended the pack to an L0 tree, with the pack step as step 6.
C11_Witness ==
    /\ out.cmd = "evolve" /\ out.status = "ok"
    /\ out.output.current_level = "L0: Manual"
    /\ out.output.pack_recommendation.recommended = "agent-factory"
    /\ Len(out.output.steps) = 6
    /\ out.output.steps[6].action = "Adopt agent-factory automation pack"

\* C12 as written: evolve with apply at a non-terminal level runs init
\* whenever a baseline artifact is missing.
C12_InitWheneverBaselineMissing ==
    [][ ( /\ out'.cmd = "evolve" /\ out'.apply /\ out'.status = "ok"
          /\ "applied" \in DOMAIN out'.output
          /\ hasMissingBaseScaffold(fs) ) =>
            out'.output.applied \in
                { <<"Ran 'reins init'">>, <<"Ran 'reins init' with agent-factory pack">> } ]_vars

\* C12 amended: an evolve with apply that ends with a result at a non-terminal
\* level has at most one applied entry.  At L0 with a baseline artifact
\* missing it is init (with the pack when the pack is recommended) and no
\* baseline artifact is missing afterwards; otherwise, when the pack is
\* recommended, it is the pack scaffolding, which touches nothing outside
\* scripts/ and .github/; otherwise nothing is applied and the tree is
\* unchanged.
C12_ApplyPriority ==
    [][ ( /\ out'.cmd = "evolve" /\ out'.apply /\ out'.status = "ok"
          /\ "applied" \in DOMAIN out'.output ) =>
            LET o == out'.output
                recommended == o.pack_recommendation.recommended = "agent-factory"
            IN /\ Len(o.applied) <= 1
               /\ IF o.current_level = "L0: Manual" /\ hasMissingBaseScaffold(fs)
                  THEN /\ o.applied = IF recommended
                                      THEN <<"Ran 'reins init' with agent-factory pack">>
                                      ELSE <<"Ran 'reins init'">>
                       /\ ~hasMissingBaseScaffold(fs')
                  ELSE IF recommended
                  THEN /\ o.applied = <<"Applied 'agent-factory' automation pack scaffolding">>
                       /\ fs' # fs
                       /\ hasAgentFactoryPack(fs')
                       /\ \A p \in Paths :
                              (~IsPrefix(<<"scripts">>, p) /\ ~IsPrefix(<<".github">>, p))
                                  => fs'[p] = fs[p]
                  ELSE o.applied = << >> /\ fs' = fs ]_vars

\* evolve --apply at L1 has scaffolded the pack while baseline artifacts are
\* still missing.
C12_Witness ==
    /\ out.cmd = "evolve" /\ out.apply /\ out.status = "ok"
    /\ out.output.current_level = "L1: Assisted"
    /\ out.output.applied = <<"Applied 'agent-factory' automation pack scaffolding">>
    /\ hasMissingBaseScaffold(fs)
    /\ hasAgentFactoryPack(fs)

\* C13: init with pack "auto" selects agent-factory only when package.json
\* exists, or a JS/TS source lies within depth 2 and .github exists, and
\* selects none in every other case; pack "none" always selects none; every
\* resolution carries a reason.
C13_AutoNeedsSignal ==
    [][ (out'.cmd = "init" /\ out'.status = "ok") =>
            LET hasPackageJson == fs[<<"package.json">>].kind # "absent"
                jsTs == {"index.ts", "cli.test.ts", "deep.ts", "lint-structure.mjs",
                         "doc-gardener.mjs", "check-changed-doc-freshness.mjs",
                         "pr-review.mjs", "docs-drift.mjs"}
                hasJsTsSources ==
                    \E p \in Paths :
                        /\ Len(p) \in 1..3
                        /\ p[Len(p)] \in jsTs
                        /\ fs[p].kind = "file"
                        /\ \A k \in 1..(Len(p) - 1) : fs[SubSeq(p, 1, k)].kind = "dir"
                hasGithub == fs[<<".github">>].kind # "absent"
            IN /\ out'.selected \in {"none", "agent-factory"}
               /\ out'.options.pack = "auto" =>
                      ((out'.selected = "agent-factory")
                           <=> (hasPackageJson \/ (hasJsTsSources /\ hasGithub)))
               /\ out'.options.pack = "none" => out'.selected = "none"
               /\ out'.reason # "" ]_vars

\* init --pack auto has selected the pack for a tree without package.json, on
\* JS/TS sources and .github.
C13_Witness ==
    /\ out.cmd = "init" /\ out.status = "ok" /\ out.options.pack = "auto"
    /\ out.selected = "agent-factory"
    /\ out.reason = "Detected JS/TS sources with GitHub workflow usage"

\* C14: weakest_dimensions of an evolve result names exactly three of the
\* six dimensions with their scores, in ascending score order with ties in
\* declaration order, and no omitted dimension scores lower than an included
\* one.
C14_WeakestDimensions ==
    [][ (out'.cmd = "evolve" /\ out'.status = "ok"
           /\ "weakest_dimensions" \in DOMAIN out'.output) =>
            \A audit \in {runAudit(fs)} :
                LET w == out'.output.weakest_dimensions
                    Index(d) == CHOOSE i \in 1..6 : Dimensions[i] = d
                    included == {w[i].dimension : i \in 1..Len(w)}
                    omitted == {Dimensions[i] : i \in 1..6} \ included
                IN /\ Len(w) = 3
                   /\ Cardinality(included) = 3
                   /\ included \subseteq {Dimensions[i] : i \in 1..6}
                   /\ \A i \in 1..3 : w[i].score = audit.scores[w[i].dimension].score
                   /\ \A i \in 1..2 :
                          \/ w[i].score < w[i + 1].score
                          \/ /\ w[i].score = w[i + 1].score
                             /\ Index(w[i].dimension) < Index(w[i + 1].dimension)
                   /\ \A d \in omitted :
                          \/ audit.scores[d].score > w[3].score
                          \/ /\ audit.scores[d].score = w[3].score
                             /\ Index(d) > Index(w[3].dimension) ]_vars

\* evolve has listed three weakest dimensions out of declaration order: a
\* later dimension with a lower score comes before an earlier one.
C14_Witness ==
    /\ out.cmd = "evolve" /\ out.status = "ok"
    /\ "weakest_dimensions" \in DOMAIN out.output
    /\ out.output.weakest_dimensions[1].dimension = "agent_legibility"
    /\ out.output.weakest_dimensions[1].score < out.output.weakest_dimensions[3].score

\* C15 as written: the created list of an init run names an artifact only if
\* the artifact did not exist before the run.
C15_CreatedOnlyNew ==
    [][ (out'.cmd = "init" /\ out'.status = "ok") =>
            \A i \in 1..Len(out'.created) : ~existsSync(fs, out'.created[i]) ]_vars

\* C15 amended: every artifact in the created list of an init run exists
\* after the run, and it existed before the run only if force was set and the
\* artifact is a file, which the run wrote over; without force no artifact
\* that was already present is reported, and a directory that was already
\* present is never reported.
C15_CreatedNewOrForced ==
    [][ (out'.cmd = "init" /\ out'.status = "ok") =>
            \A i \in 1..Len(out'.created) :
                /\ existsSync(fs', out'.created[i])
                /\ existsSync(fs, out'.created[i]) =>
                       /\ out'.options.force
                       /\ IsFile(fs, out'.created[i])
                       /\ IsFile(fs', out'.created[i]) ]_vars

\* init --force has reported the eight base files as created on a tree whose
\* base directories were all there already.
C15_Witness ==
    /\ out.cmd = "init" /\ out.status = "ok" /\ out.options.force
    /\ out.selected = "none"
    /\ Len(out.created) = 8
    /\ out.created[1] = <<"AGENTS.md">>
    /\ out.created[8] = <<"docs", "exec-plans", "tech-debt-tracker.md">>

\* C16: in every doctor report each check whose status is fail or warn
\* carries a non-empty fix string.
C16_NonPassHasFix ==
    (out.cmd = "doctor" /\ out.status = "ok") =>
        \A i \in 1..Len(out.report.checks) :
            /\ out.report.checks[i].status \in {"pass", "fail", "warn"}
            /\ out.report.checks[i].status \in {"fail", "warn"} =>
                   out.report.checks[i].fix # ""

\* A doctor report holds a fail check and a warn check, each with a fix.
C16_Witness ==
    /\ out.cmd = "doctor" /\ out.status = "ok"
    /\ \E i, j \in 1..Len(out.report.checks) :
           /\ out.report.checks[i].status = "fail" /\ out.report.checks[i].fix # ""
           /\ out.report.checks[j].status = "warn" /\ out.report.checks[j].fix # ""

\* C17: summary.failed of a doctor report is the number of absent artifacts
\* among AGENTS.md, ARCHITECTURE.md and the five required docs, whatever else
\* the tree holds or lacks; it is 0 for the tree a successful init leaves.
C17_FailsAreMissingRequired ==
    LET required ==
            { <<"AGENTS.md">>, <<"ARCHITECTURE.md">>,
              <<"docs", "design-docs", "index.md">>,
              <<"docs", "design-docs", "core-beliefs.md">>,
              <<"docs", "product-specs", "index.md">>,
              <<"docs", "exec-plans", "tech-debt-tracker.md">>,
              <<"docs", "golden-principles.md">> }
    IN /\ (out.cmd = "doctor" /\ out.status = "ok") =>
              /\ out.report.summary.failed =
                     Cardinality({p \in required : fs[p].kind = "absent"})
              /\ out.report.summary.failed =
                     Cardinality({i \in 1..Len(out.report.checks) :
                                      out.report.checks[i].status = "fail"})
       /\ (out.cmd = "init" /\ out.status = "ok") =>
              \A report \in {runDoctor(fs)} :
                  report.status = "ok" /\ report.summary.failed = 0

\* doctor reports no fail for a tree whose AGENTS.md is over-long and which
\* has no linter, while it does report warnings.
C17_Witness ==
    /\ out.cmd = "doctor" /\ out.status = "ok"
    /\ out.report.summary.failed = 0
    /\ fs[<<"AGENTS.md">>].lines > 150
    /\ fs[<<"biome.json">>].kind = "absent"
    /\ out.report.summary.warnings >= 2

\* C18 as written: whenever an optional enrichment (linter, CI, CI depth,
\* policy file, verified docs, hierarchical map files, structural-lint
\* scripts) is missing, the doctor report holds a warn check for it.
C18_MissingEnrichmentWarns ==
    (out.cmd = "doctor" /\ out.status = "ok") =>
        LET warned == {out.report.checks[i].check :
                          i \in {j \in 1..Len(out.report.checks) :
                                    out.report.checks[j].status = "warn"}}
            named == {"AGENTS.md too long", "No linter configured", "No CI pipeline",
                      "CI lacks enforcement steps", "No risk-policy.json",
                      "No verification headers in docs", "No structural lint scripts"}
            hasCi == \/ fs[<<".github", "workflows">>].kind # "absent"
                     \/ fs[<<"Jenkinsfile">>].kind # "absent"
            mapFiles == {p \in {<<"AGENTS.md">>, <<"packages", "app", "AGENTS.md">>} :
                            fs[p].kind = "file"}
            lintScripts == {p \in {<<"scripts", "lint-structure.mjs">>} : fs[p].kind = "file"}
        IN /\ fs[<<"biome.json">>].kind = "absent" => "No linter configured" \in warned
           /\ ~hasCi => "No CI pipeline" \in warned
           /\ (hasCi /\ Cardinality(scanWorkflowsForEnforcement(fs, WorkflowDir)) < 2)
                  => "CI lacks enforcement steps" \in warned
           /\ fs[<<"risk-policy.json">>].kind = "absent" => "No risk-policy.json" \in warned
           /\ readVerifiedDocs(fs) = {} => "No verification headers in docs" \in warned
           /\ Cardinality(mapFiles) < 2 => warned \ named # {}
           /\ lintScripts = {} => "No structural lint scripts" \in warned

\* C18 amended: a doctor report warns about a missing linter, a missing CI
\* pipeline, a missing policy file and missing verified docs exactly when
\* they are missing; it warns about CI depth exactly when .github/workflows
\* exists and fewer than two gates are enforced there; it warns about
\* structural-lint scripts exactly when scripts/ exists and holds none; it
\* never warns about hierarchical map files.
C18_EnrichmentWarnings ==
    (out.cmd = "doctor" /\ out.status = "ok") =>
        LET warned == {out.report.checks[i].check :
                          i \in {j \in 1..Len(out.report.checks) :
                                    out.report.checks[j].status = "warn"}}
            named == {"AGENTS.md too long", "No linter configured", "No CI pipeline",
                      "CI lacks enforcement steps", "No risk-policy.json",
                      "No verification headers in docs", "No structural lint scripts"}
            hasWorkflows == fs[<<".github", "workflows">>].kind # "absent"
            hasCi == hasWorkflows \/ fs[<<"Jenkinsfile">>].kind # "absent"
            lintScripts == {p \in {<<"scripts", "lint-structure.mjs">>} : fs[p].kind = "file"}
        IN /\ ("No linter configured" \in warned) <=> fs[<<"biome.json">>].kind = "absent"
           /\ ("No CI pipeline" \in warned) <=> ~hasCi
           /\ ("CI lacks enforcement steps" \in warned)
                  <=> (hasWorkflows
                         /\ Cardinality(scanWorkflowsForEnforcement(fs, WorkflowDir)) < 2)
           /\ ("No risk-policy.json" \in warned) <=> fs[<<"risk-policy.json">>].kind = "absent"
           /\ ("No verification headers in docs" \in warned) <=> readVerifiedDocs(fs) = {}
           /\ ("No structural lint scripts" \in warned)
                  <=> (fs[<<"scripts">>].kind # "absent" /\ lintScripts = {})
           /\ warned \subseteq named

\* doctor has reported on a tree whose only CI is a Jenkinsfile and which has
\* neither scripts/ nor a second AGENTS.md: the CI pipeline passes and no
\* warning names CI depth or structural-lint scripts.
C18_Witness ==
    /\ out.cmd = "doctor" /\ out.status = "ok"
    /\ fs[<<"Jenkinsfile">>].kind = "file"
    /\ fs[<<".github", "workflows">>].kind = "absent"
    /\ fs[<<"scripts">>].kind = "absent"
    /\ \E i \in 1..Len(out.report.checks) :
           out.report.checks[i].check = "CI pipeline exists"
    /\ \A i \in 1..Len(out.report.checks) :
           out.report.checks[i].check
               \notin {"CI lacks enforcement steps", "No structural lint scripts"}
    /\ out.report.summary.warnings >= 1

\* C19: an audit of an empty existing directory gives score 0 in all six
\* dimensions, total_score 0 and maturity level "L0: Manual".
C19_EmptyDirectoryScoresZero ==
    ( /\ out.cmd = "audit"
      /\ fs[Root].kind = "dir"
      /\ \A p \in Paths \ {Root} : fs[p].kind = "absent" ) =>
        /\ out.status = "ok"
        /\ \A i \in 1..Len(Dimensions) : out.result.scores[Dimensions[i]].score = 0
        /\ out.result.total_score = 0
        /\ out.result.max_score = 18
        /\ out.result.maturity_level = "L0: Manual"

\* audit has printed a result for the empty directory.
C19_Witness ==
    /\ out.cmd = "audit" /\ out.status = "ok"
    /\ fs = EmptyTree
    /\ out.result.total_score = 0

\* C20: after init without pack and without force succeeds on an empty
\* directory, an audit of the directory gives Repository Knowledge 3,
\* Architecture Enforcement 1, Golden Principles 2, Garbage Collection 3, a
\* total of at least 5 and level L1 or L2.
C20_ScaffoldedAudit ==
    [][ ( /\ out'.cmd = "init" /\ out'.status = "ok"
          /\ ~out'.options.force /\ out'.options.pack = "none"
          /\ fs[Root].kind = "dir"
          /\ \A p \in Paths \ {Root} : fs[p].kind = "absent" ) =>
            \A audit \in {runAudit(fs')} :
                /\ audit.status = "ok"
                /\ audit.scores.repository_knowledge.score = 3
                /\ audit.scores.architecture_enforcement.score = 1
                /\ audit.scores.golden_principles.score = 2
                /\ audit.scores.garbage_collection.score = 3
                /\ audit.total_score >= 5
                /\ audit.maturity_level \in {"L1: Assisted", "L2: Steered"} ]_vars

\* init without pack and force has created all fourteen baseline artifacts in
\* an empty directory.
C20_Witness ==
    /\ out.cmd = "init" /\ out.status = "ok"
    /\ ~out.options.force /\ out.options.pack = "none"
    /\ Len(out.created) = 14
    /\ \A p \in Paths \ {Root} :
           fs[p].kind # "absent" =>
               \E i \in 1..14 : IsPrefix(p, out.created[i])

\* C21: the Agent Workflow CI point is awarded exactly when the workflow
\* directory exists and at least two distinct gates among lint, test, build
\* and typecheck are detected in its workflow files; audit, prettier and
\* format do not count and a checkout-only workflow earns nothing.
C21_CiPointNeedsTwoGates ==
    (out.cmd = "audit" /\ out.status = "ok") =>
        LET workflows == {p \in Paths : Len(p) = 3 /\ SubSeq(p, 1, 2) = <<".github", "workflows">>
                                        /\ fs[p].kind = "file"}
            counted == {g \in {"lint", "test", "build", "typecheck"} :
                           \E p \in workflows : ("gate:" \o g) \in fs[p].marks}
            ciPoint == fs[<<".github", "workflows">>].kind # "absent" /\ Cardinality(counted) >= 2
            configPoint == fs[<<"CLAUDE.md">>].kind # "absent"
            governancePoint == \/ fs[<<".github", "pull_request_template.md">>].kind # "absent"
                               \/ fs[<<"risk-policy.json">>].kind # "absent"
        IN out.result.scores.agent_workflow.score =
               (IF configPoint THEN 1 ELSE 0) + (IF governancePoint THEN 1 ELSE 0)
                   + (IF ciPoint THEN 1 ELSE 0)

\* audit has scored a tree whose only workflow names the three gates audit,
\* prettier and format, and has given no Agent Workflow point.
C21_Witness ==
    /\ out.cmd = "audit" /\ out.status = "ok"
    /\ fs[<<".github", "workflows", "ci.yml">>].body = "ci-audit-format"
    /\ out.result.scores.agent_workflow.score = 0

\* C22: the Architecture Enforcement evidence point is awarded exactly when
\* at least two of the four signals (policy file, CI referencing lint, test
\* or typecheck, structural-lint script, golden-principles doc mentioning
\* enforcement together with a linter config) hold; exactly one signal adds
\* only the partial-evidence finding and zero signals add no finding.
C22_EvidenceNeedsTwoSignals ==
    (out.cmd = "audit" /\ out.status = "ok") =>
        LET workflows == {p \in Paths : Len(p) = 3 /\ SubSeq(p, 1, 2) = <<".github", "workflows">>
                                        /\ fs[p].kind = "file"}
            hasLinter == fs[<<"biome.json">>].kind # "absent"
            signals ==
                { s \in {"policy", "ci", "script", "golden"} :
                    \/ s = "policy" /\ fs[<<"risk-policy.json">>].kind # "absent"
                    \/ s = "ci" /\ \E p \in workflows :
                                      \E g \in {"lint", "test", "typecheck"} :
                                          ("gate:" \o g) \in fs[p].marks
                    \/ s = "script" /\ fs[<<"scripts", "lint-structure.mjs">>].kind = "file"
                    \/ s = "golden" /\ fs[<<"docs", "golden-principles.md">>].kind = "file"
                                    /\ "enforce-word" \in fs[<<"docs", "golden-principles.md">>].marks
                                    /\ hasLinter }
            docPoint == /\ fs[<<"ARCHITECTURE.md">>].kind = "file"
                        /\ "dep-rules" \in fs[<<"ARCHITECTURE.md">>].marks
            ae == out.result.scores.architecture_enforcement
        IN /\ ae.score = (IF docPoint THEN 1 ELSE 0) + (IF hasLinter THEN 1 ELSE 0)
                            + (IF Cardinality(signals) >= 2 THEN 1 ELSE 0)
           /\ ae.evidence =
                  IF Cardinality(signals) >= 2 THEN {"Enforcement evidence detected"}
                  ELSE IF Cardinality(signals) = 1
                  THEN {"Partial enforcement evidence (need 2+ signals)"}
                  ELSE {}

\* audit has found exactly one enforcement signal, the policy file, on a
\* scaffolded tree: the partial finding and no evidence point.
C22_Witness ==
    /\ out.cmd = "audit" /\ out.status = "ok"
    /\ fs[<<"risk-policy.json">>].kind = "file"
    /\ out.result.scores.architecture_enforcement.evidence =
           {"Partial enforcement evidence (need 2+ signals)"}
    /\ out.result.scores.architecture_enforcement.score = 1

\* C23: audit, doctor and evolve without apply leave the target tree as it
\* was; a changed tree comes from init or from evolve with apply only.
C23_ReadOnlyCommands ==
    [][ /\ ( \/ out'.cmd \in {"audit", "doctor"}
             \/ (out'.cmd = "evolve" /\ ~out'.apply) ) => fs' = fs
        /\ fs' # fs => ( \/ out'.cmd = "init"
                         \/ (out'.cmd = "evolve" /\ out'.apply) ) ]_vars

\* evolve without apply has recommended the pack to a tree that lacks baseline
\* artifacts and the pack, and the tree still lacks them.
C23_Witness ==
    /\ out.cmd = "evolve" /\ ~out.apply /\ out.status = "ok"
    /\ out.output.pack_recommendation.recommended = "agent-factory"
    /\ out.output.applied = << >>
    /\ hasMissingBaseScaffold(fs)
    /\ ~hasAgentFactoryPack(fs)

\* C24 as written: findFiles walks every non-ignored directory below the
\* root whatever maxDepth is.
C24_WalksEveryDirectory ==
    probe.done =>
        \A d \in Paths :
            ( /\ \A i \in 1..Len(d) :
                    /\ fs[SubSeq(d, 1, i)].kind = "dir"
                    /\ d[i] \notin {"node_modules", ".git", "dist", "build", ".next", ".expo"}
              /\ \A i \in 0..(Len(d) - 1) : "EACCES" \notin fs[SubSeq(d, 1, i)].marks )
                => d \in probe.walked

\* C24 amended: findFiles lists a directory only if its depth (the root has
\* depth 0) is at most maxDepth, and within that bound it lists exactly the
\* directories reached through listed, non-ignored entries that stat as
\* directories; a file is returned exactly when it is an entry of a listed
\* directory, is not named like an ignored directory, stats as a non-directory
\* and matches the pattern.  Directories deeper than maxDepth are not walked.
C24_WalkBoundedByDepth ==
    probe.done =>
        LET ignored == {"node_modules", ".git", "dist", "build", ".next", ".expo"}
            Stat(p) == IF realpath(fs, p) = {} THEN "null"
                       ELSE fs[CHOOSE r \in realpath(fs, p) : TRUE].kind
            Listed(d) ==
                IF Stat(d) # "dir" THEN {}
                ELSE LET q == CHOOSE r \in realpath(fs, d) : TRUE IN
                     IF "EACCES" \in fs[q].marks THEN {}
                     ELSE {Append(d, c[Len(c)]) :
                              c \in {c \in Paths : Len(c) = Len(q) + 1
                                                  /\ SubSeq(c, 1, Len(q)) = q
                                                  /\ fs[c].kind # "absent"}}
        IN /\ Root \in probe.walked
           /\ \A d \in probe.walked :
                  /\ Len(d) <= probe.maxDepth
                  /\ d # Root =>
                         /\ SubSeq(d, 1, Len(d) - 1) \in probe.walked
                         /\ d \in Listed(SubSeq(d, 1, Len(d) - 1))
                         /\ d[Len(d)] \notin ignored
                         /\ Stat(d) = "dir"
                  /\ \A e \in Listed(d) :
                         /\ (e[Len(e)] \notin ignored /\ Stat(e) = "dir"
                                 /\ Len(e) <= probe.maxDepth) => e \in probe.walked
                         /\ (e \in probe.results) <=>
                                (e[Len(e)] \notin ignored /\ Stat(e) = "file"
                                     /\ e[Len(e)] \in {"index.ts", "deep.ts"})
           /\ \A m \in probe.results : SubSeq(m, 1, Len(m) - 1) \in probe.walked

\* findFiles with maxDepth 2 has listed lib/a and returned lib/index.ts but
\* has not listed the directory lib/a/b below the bound.
C24_Witness ==
    /\ probe.done /\ probe.maxDepth = 2
    /\ fs[<<"lib", "a", "b">>] = Dir
    /\ <<"lib", "a">> \in probe.walked
    /\ <<"lib", "a", "b">> \notin probe.walked
    /\ <<"lib", "index.ts">> \in probe.results
    /\ <<"lib", "a", "b", "deep.ts">> \notin probe.results

\* C25: findFiles ends, without raising, on trees holding a symbolic link
\* to an ancestor, a link that cannot be stat'ed and a directory that cannot
\* be listed: it lists finitely many directories, no more than one per path
\* of at most maxDepth components, and neither lists nor returns anything
\* that cannot be stat'ed or that lies in an unreadable directory.
C25_ScanSkipsAndEnds ==
    probe.done =>
        LET Resolved(p) == realpath(fs, p)
            Names == {p[Len(p)] : p \in Paths \ {Root}}
        IN /\ IsFiniteSet(probe.walked) /\ IsFiniteSet(probe.results)
           /\ \A d \in probe.walked :
                  Len(d) <= probe.maxDepth /\ \A i \in 1..Len(d) : d[i] \in Names
           /\ \A m \in probe.results :
                  Len(m) <= probe.maxDepth + 1 /\ \A i \in 1..Len(m) : m[i] \in Names
           /\ \A d \in probe.walked :
                  Resolved(d) # {} /\ fs[CHOOSE r \in Resolved(d) : TRUE].kind = "dir"
           /\ \A m \in probe.results :
                  Resolved(m) # {} /\ fs[CHOOSE r \in Resolved(m) : TRUE].kind = "file"
           /\ \A x \in (probe.walked \cup probe.results) \ {Root} :
                  LET up == Resolved(SubSeq(x, 1, Len(x) - 1))
                  IN up # {} /\ "EACCES" \notin fs[CHOOSE r \in up : TRUE].marks

\* findFiles has ended on a tree where lib/a/up links to the root and lib/a/b
\* cannot be listed, having gone round the cycle once.
C25_Witness ==
    /\ probe.done /\ probe.maxDepth = 4
    /\ fs[<<"lib", "a", "up">>] = Link(Root)
    /\ fs[<<"lib", "a", "b">>] = LockedDir
    /\ <<"lib", "a", "up", "lib">> \in probe.walked
    /\ <<"lib", "a", "up", "lib", "index.ts">> \in probe.results
    /\ <<"lib", "a", "b">> \in probe.walked
    /\ <<"lib", "a", "b", "deep.ts">> \notin probe.results

\* C26: for every total score in 0..18 the level key evolve computes denotes
\* the level audit reports: below the terminal level the path selected by
\* the key starts from exactly the audit's label, and the key is L4 exactly
\* when the label is the terminal one.
C26_LevelKeyMatchesLabel ==
    probe.done =>
        /\ probe.keyA \in {"L0", "L1", "L2", "L3", "L4"}
        /\ (probe.keyA = "L4") <=> (probe.levelA = "L4: Self-Correcting")
        /\ probe.keyA # "L4" =>
               /\ probe.keyA \in DOMAIN EVOLUTION_PATHS
               /\ EVOLUTION_PATHS[probe.keyA].from = probe.levelA

\* The score 8, the last of its band, has been resolved by both functions:
\* key L1 and label "L1: Assisted".
C26_Witness ==
    /\ probe.done
    /\ probe.a = 8
    /\ probe.keyA = "L1"
    /\ probe.levelA = "L1: Assisted"
    /\ EVOLUTION_PATHS[probe.keyA].from = probe.levelA

\* C27: after init ends with its result on an existing directory, none of
\* the twelve baseline artifacts evolve looks for is missing, and an evolve
\* run with apply on the tree init left reports no init run.
C27_InitCompletesBaseline ==
    [][ (out'.cmd = "init" /\ out'.status = "ok") =>
            /\ existsSync(fs, Root)
            /\ ~hasMissingBaseScaffold(fs')
            /\ \A e \in {runEvolve(fs', TRUE)} :
                   "applied" \in DOMAIN e.output =>
                       \A i \in 1..Len(e.output.applied) :
                           e.output.applied[i] \notin
                               {"Ran 'reins init'", "Ran 'reins init' with agent-factory pack"} ]_vars

\* init has completed on a directory that already held ARCHITECTURE.md but
\* not the debt tracker: it created the tracker and the baseline is whole.
C27_Witness ==
    /\ out.cmd = "init" /\ out.status = "ok" /\ ~out.options.force
    /\ \E i \in 1..Len(out.created) :
           out.created[i] = <<"docs", "exec-plans", "tech-debt-tracker.md">>
    /\ \A i \in 1..Len(out.created) : out.created[i] # <<"ARCHITECTURE.md">>
    /\ ~hasMissingBaseScaffold(fs)

\* C28 (as stated): after an evolve run with apply ends with a result, an
\* evolve run with apply on the tree it left reports an empty applied list
\* and leaves the tree as it is.
C28_ApplyTwiceReportsEmpty ==
    [][ (out'.cmd = "evolve" /\ out'.apply /\ out'.status = "ok") =>
            \A e \in {runEvolve(fs', TRUE)} :
                /\ e.fs = fs'
                /\ e.output.status = "ok"
                /\ "applied" \in DOMAIN e.output
                /\ e.output.applied = << >> ]_vars

\* C28 (amended): after an evolve run with apply ends with a result, an
\* evolve run with apply on the tree it left ends with a result too and
\* leaves the tree as it is; it reports an empty applied list, except that
\* when the first run printed the terminal-level message the second prints
\* the same message, which carries no applied list.
C28_ApplyIdempotent ==
    [][ (out'.cmd = "evolve" /\ out'.apply /\ out'.status = "ok") =>
            \A e \in {runEvolve(fs', TRUE)} :
                /\ e.fs = fs'
                /\ e.output.status = "ok"
                /\ IF "applied" \in DOMAIN out'.output
                   THEN "applied" \in DOMAIN e.output /\ e.output.applied = << >>
                   ELSE e.output = out'.output /\ "message" \in DOMAIN e.output ]_vars

\* evolve --apply has just scaffolded something, and a second evolve --apply
\* on the tree it left applies nothing.
C28_Witness ==
    /\ out.cmd = "evolve" /\ out.apply /\ out.status = "ok"
    /\ "applied" \in DOMAIN out.output
    /\ Len(out.output.applied) > 0
    /\ \A e \in {runEvolve(fs, TRUE)} : e.fs = fs /\ e.output.applied = << >>

\* C29: when init without force succeeds on a target whose audit yields
\* scores, the audit of the tree it leaves yields scores too, and each of the
\* six dimension scores, the total and hence the maturity level are at
\* least what they were before, whatever pack was selected.
C29_InitNeverLowersScores ==
    [][ (out'.cmd = "init" /\ out'.status = "ok" /\ ~out'.options.force) =>
            \A before \in {runAudit(fs)} : \A after \in {runAudit(fs')} :
                before.status = "ok" =>
                    /\ after.status = "ok"
                    /\ DOMAIN after.scores = {Dimensions[i] : i \in 1..Len(Dimensions)}
                    /\ \A d \in DOMAIN before.scores :
                           after.scores[d].score >= before.scores[d].score
                    /\ after.total_score >= before.total_score
                    /\ \E i, j \in 1..5 :
                           /\ i <= j
                           /\ before.maturity_level =
                                  <<"L0: Manual", "L1: Assisted", "L2: Steered",
                                    "L3: Autonomous", "L4: Self-Correcting">>[i]
                           /\ after.maturity_level =
                                  <<"L0: Manual", "L1: Assisted", "L2: Steered",
                                    "L3: Autonomous", "L4: Self-Correcting">>[j] ]_vars

\* init without force has completed with the agent-factory pack on a target
\* that held a package.json of its own, and the tree it left audits at L2 or
\* above.
C29_Witness ==
    /\ out.cmd = "init" /\ out.status = "ok" /\ ~out.options.force
    /\ out.selected = "agent-factory"
    /\ Len(out.created) > 0
    /\ existsSync(fs, PkgJsonPath)
    /\ \A after \in {runAudit(fs)} : after.status = "ok" /\ after.total_score >= 9

\* C30: whenever the audit of a tree awards the Agent Workflow CI point (at
\* least two of lint, test, build, typecheck found in the workflow
\* directory), the doctor run on the same tree ends with a report that holds
\* the pass check "CI enforces N quality gates", N being the number of gates
\* the scan found, at least the number the audit counted.
C30_CiPointImpliesDoctorPass ==
    (out.cmd = "doctor" /\ runAudit(fs).status = "ok"
         /\ scoreAgentWorkflowCi(fs, buildAuditRuntimeContext(fs)) = 1) =>
        /\ out.status = "ok"
        /\ \E i \in 1..Len(out.report.checks) : \E n \in 2..Cardinality(Gates) :
               /\ out.report.checks[i] = DoctorCheck(ciGatesCheck(n), "pass", "")
               /\ n = Cardinality(scanWorkflowsForEnforcement(fs, WorkflowDir))
               /\ n >= Cardinality(buildAuditRuntimeContext(fs).ciEnforcementSteps
                                      \cap {"lint", "test", "build", "typecheck"})
        /\ \A i \in 1..Len(out.report.checks) :
               out.report.checks[i].check # "CI lacks enforcement steps"

\* The doctor has reported four gates for a tree whose workflow runs lint,
\* test, build and typecheck and whose audit awards the CI point.
C30_Witness ==
    /\ out.cmd = "doctor" /\ out.status = "ok"
    /\ runAudit(fs).status = "ok"
    /\ scoreAgentWorkflowCi(fs, buildAuditRuntimeContext(fs)) = 1
    /\ \E i \in 1..Len(out.report.checks) :
           out.report.checks[i].check = "CI enforces 4 quality gates"

====
